---------------------------- MODULE Spec2Model ----------------------------
(***************************************************************************)
(* A model of bifrost's workspace materialization engine:                  *)
(*   - BifrostPath (util/bifrost_path.rs): the target-path guard,          *)
(*   - WorkingDir  (core/workingdir.rs):   the walk and the load,          *)
(*   - LoadSpace / ShowSpace / UnloadSpace / RunSpace (core/workspace.rs): *)
(*     the prep / build / exec lifecycle.                                  *)
(*                                                                         *)
(* Strings are sequences of one-character strings, so that starts_with,    *)
(* contains and the parsing done by Path::join are computed, not assumed.  *)
(* A path is the sequence of its components (what Path::components         *)
(* yields); the component RootDir stands for the leading "/".  The         *)
(* filesystem is a function from canonical absolute paths to entries.      *)
(* Symbolic links are outside the model.                                   *)
(***************************************************************************)
EXTENDS Integers, Sequences, FiniteSets, TLC

VARIABLES
    fs,     \* the filesystem: canonical absolute path -> entry
    cfg,    \* what Config / the manifest / the command line supply
    sp,     \* slot -> the operation space of the invocation running there
    res,    \* slot -> the outcome of the last call made in that slot
    eff     \* the external effects so far (paths written, deleted, listed, spawns)

vars == <<fs, cfg, sp, res, eff>>

---------------------------------------------------------------------------
(* Bounds of the model.                                                    *)

\* Largest number of entries below the load root in a generated source tree.
MaxNodes == 3
\* Largest size, in bytes, of a generated source file.
MaxSize == 1
\* Largest number of names in a generated ignore list.
MaxIgnore == 2
\* Largest number of prep/build/exec calls made on one space.
MaxCalls == 3
\* Largest number of invocations (constructed spaces) in one behaviour.
MaxOps == 2

---------------------------------------------------------------------------
(* Strings.                                                                *)

\* The byte that makes a file name invalid UTF-8 (OsStr::to_str gives None).
BadByte == "xFF"

None == [some |-> FALSE, val |-> <<>>]
Some(v) == [some |-> TRUE, val |-> v]

\* str::starts_with
StartsWith(s, a) == Len(a) =< Len(s) /\ SubSeq(s, 1, Len(a)) = a

\* str::contains
Contains(s, a) ==
    \E i \in 0..(Len(s) - Len(a)) : SubSeq(s, i + 1, i + Len(a)) = a

\* OsStr::to_str : None unless the bytes are valid UTF-8.
ToStr(name) ==
    IF \E i \in 1..Len(name) : name[i] = BadByte THEN None ELSE Some(name)

---------------------------------------------------------------------------
(* Paths.                                                                  *)

RootDir == <<"/">>
ParentDir == <<".", ".">>
CurDir == <<".">>

\* The pieces of a string between its separators, empty pieces included.
RECURSIVE Segs(_)
Segs(s) ==
    IF s = <<>> THEN << <<>> >>
    ELSE LET r == Segs(Tail(s)) IN
         IF Head(s) = "/" THEN << <<>> >> \o r
         ELSE << <<Head(s)>> \o Head(r) >> \o Tail(r)

IsNormalSeg(g) == g /= <<>> /\ g /= CurDir

\* Path::components of a string that is pushed onto a non-empty path:
\* a leading separator is the root, empty pieces and "." pieces vanish,
\* ".." is kept as it is.
Components(s) ==
    (IF s /= <<>> /\ s[1] = "/" THEN <<RootDir>> ELSE <<>>)
        \o SelectSeq(Segs(s), IsNormalSeg)

IsAbsolute(p) == p /= <<>> /\ p[1] = RootDir

\* PathBuf::push of a path: an absolute argument replaces the path.
JoinPath(p, q) == IF IsAbsolute(q) THEN q ELSE p \o q

\* Path::join of a string.
Join(p, s) == JoinPath(p, Components(s))

\* Path::parent : the path without its last component; None for "/" and "".
Parent(p) ==
    IF p = <<>> \/ p = <<RootDir>> THEN None
    ELSE Some(SubSeq(p, 1, Len(p) - 1))

\* Path::file_name
FileName(p) == IF p = <<>> THEN <<>> ELSE p[Len(p)]

IsPrefix(b, p) == Len(b) =< Len(p) /\ SubSeq(p, 1, Len(b)) = b

\* Path::strip_prefix, by components.
StripPrefix(p, b) ==
    IF IsPrefix(b, p) THEN Some(SubSeq(p, Len(b) + 1, Len(p))) ELSE None

\* Path::to_str : the components joined by separators, None when a component
\* is not valid UTF-8.
RECURSIVE JoinSegs(_)
JoinSegs(p) ==
    IF p = <<>> THEN <<>>
    ELSE IF Len(p) = 1 THEN p[1]
    ELSE p[1] \o <<"/">> \o JoinSegs(Tail(p))

PathToStr(p) ==
    IF \E i \in 1..Len(p) : ~ToStr(p[i]).some THEN None
    ELSE IF IsAbsolute(p)
         THEN Some(<<"/">> \o JoinSegs(Tail(p)))
         ELSE Some(JoinSegs(p))

---------------------------------------------------------------------------
(* The filesystem.                                                         *)

Dir(readable) == [kind |-> "dir", size |-> 0, readable |-> readable]
File(n) == [kind |-> "file", size |-> n, readable |-> TRUE]
\* A fifo, socket or device: neither is_dir nor is_file.
Special == [kind |-> "other", size |-> 0, readable |-> TRUE]

NotFound == <<>>

\* The canonical path the OS resolves p to, NotFound when a component is
\* missing or is looked up in something that is not a directory.
RECURSIVE ResolveFrom(_, _, _)
ResolveFrom(f, cur, rest) ==
    IF cur \notin DOMAIN f THEN NotFound
    ELSE IF rest = <<>> THEN cur
    ELSE IF f[cur].kind /= "dir" THEN NotFound
    ELSE IF Head(rest) = ParentDir
         THEN ResolveFrom(f, IF Len(cur) = 1 THEN cur
                             ELSE SubSeq(cur, 1, Len(cur) - 1), Tail(rest))
    ELSE ResolveFrom(f, Append(cur, Head(rest)), Tail(rest))

Resolve(f, p) ==
    IF ~IsAbsolute(p) THEN NotFound ELSE ResolveFrom(f, <<RootDir>>, Tail(p))

\* fs::metadata(p).is_ok()
MetadataOk(f, p) == Resolve(f, p) /= NotFound

\* Path::is_dir / Path::is_file
IsDir(f, p) == MetadataOk(f, p) /\ f[Resolve(f, p)].kind = "dir"
IsFile(f, p) == MetadataOk(f, p) /\ f[Resolve(f, p)].kind = "file"

\* The entries at or below the canonical path c.
Subtree(f, c) == {q \in DOMAIN f : IsPrefix(c, q)}

\* f with the entry e at the canonical path c.
Put(f, c, e) == [q \in DOMAIN f \cup {c} |-> IF q = c THEN e ELSE f[q]]

\* f without the entries in the set gone.
Without(f, gone) == [q \in DOMAIN f \ gone |-> f[q]]

\* mkdir(p): fails when p exists or its parent is missing or not a directory.
Mkdir(f, p) ==
    LET par == Resolve(f, Parent(p).val) IN
    IF ~Parent(p).some \/ MetadataOk(f, p) \/ FileName(p) = ParentDir
       \/ par = NotFound
    THEN [ok |-> FALSE, fs |-> f, made |-> {}]
    ELSE IF f[par].kind /= "dir" THEN [ok |-> FALSE, fs |-> f, made |-> {}]
    ELSE [ok |-> TRUE, fs |-> Put(f, Append(par, FileName(p)), Dir(TRUE)),
          made |-> {Append(par, FileName(p))}]

\* fs::create_dir_all(p): nothing to do for "" or an existing directory,
\* otherwise the parent first and then p itself.
RECURSIVE CreateDirAll(_, _)
CreateDirAll(f, p) ==
    IF p = <<>> THEN [ok |-> TRUE, fs |-> f, made |-> {}]
    ELSE IF IsDir(f, p) THEN [ok |-> TRUE, fs |-> f, made |-> {}]
    ELSE IF MetadataOk(f, p) \/ ~Parent(p).some
         THEN [ok |-> FALSE, fs |-> f, made |-> {}]
    ELSE LET up == CreateDirAll(f, Parent(p).val) IN
         IF ~up.ok THEN up
         ELSE IF IsDir(up.fs, p)
              THEN up
         ELSE LET me == Mkdir(up.fs, p) IN
              [ok |-> me.ok, fs |-> me.fs, made |-> up.made \cup me.made]

\* File::create(p): creates or truncates the file; fails on a directory or
\* under a missing parent.
FileCreate(f, p) ==
    LET par == IF Parent(p).some THEN Resolve(f, Parent(p).val) ELSE NotFound
        at == Resolve(f, p) IN
    IF at /= NotFound
    THEN IF f[at].kind = "dir" THEN [ok |-> FALSE, fs |-> f, at |-> NotFound]
         ELSE [ok |-> TRUE, fs |-> Put(f, at, File(0)), at |-> at]
    ELSE IF par = NotFound \/ FileName(p) = ParentDir
         THEN [ok |-> FALSE, fs |-> f, at |-> NotFound]
    ELSE IF f[par].kind /= "dir" THEN [ok |-> FALSE, fs |-> f, at |-> NotFound]
    ELSE [ok |-> TRUE, fs |-> Put(f, Append(par, FileName(p)), File(0)),
          at |-> Append(par, FileName(p))]

---------------------------------------------------------------------------
(* BifrostPath (util/bifrost_path.rs).                                     *)

DOT_BIFROST == <<".", "b", "i", "f", "r", "o", "s", "t">>
CONTAINER == <<"c", "o", "n", "t", "a", "i", "n", "e", "r">>
BIFROST_CONTAINER == <<"b", "i", "f", "r", "o", "s", "t">>
DOT_BIFROST_CONFIG ==
    <<".", "b", "i", "f", "r", "o", "s", "t", "_", "c", "o", "n", "f", "i", "g">>
TMP == <<"t", "m", "p">>

\* The black_list of BifrostPath::check.
BlackList == {DOT_BIFROST, CONTAINER, BIFROST_CONTAINER, DOT_BIFROST_CONFIG, TMP}

\* A check that only asks for a name.
CheckNameAnyName(name) == name.some

\* BifrostPath::check : TRUE when the proposed name checks good.
CheckName(name) == name.some /\ name.val \notin BlackList

\* home/.bifrost/container/bifrost
ContainerPath(home) ==
    Join(Join(Join(home, DOT_BIFROST), CONTAINER), BIFROST_CONTAINER)

\* The path both constructors build before they look at the disk.
CandidatePath(home, name) == Join(ContainerPath(home), name.val)

\* A constructor that does not look at the disk.
BifrostPathNewUnprobed(f, home, name) ==
    IF ~CheckName(name) THEN [status |-> "InvalidName", path |-> None]
    ELSE [status |-> "Ok", path |-> Some(CandidatePath(home, name))]

\* BifrostPath::new.  "AlreadyExists" is the branch that writes the message
\* and calls process::exit(1).
BifrostPathNew(f, home, name) ==
    IF ~CheckName(name) THEN [status |-> "InvalidName", path |-> None]
    ELSE IF MetadataOk(f, CandidatePath(home, name))
         THEN [status |-> "AlreadyExists", path |-> None]
    ELSE [status |-> "Ok", path |-> Some(CandidatePath(home, name))]

\* BifrostPath::from_existing.  The name is unwrapped with expect.
FromExisting(f, home, name) ==
    IF ~name.some THEN [status |-> "Panic", path |-> None]
    ELSE IF ~MetadataOk(f, CandidatePath(home, name))
         THEN [status |-> "NotFound", path |-> None]
    ELSE [status |-> "Ok", path |-> Some(CandidatePath(home, name))]

\* A try_from_existing that hands the error of from_existing on.
TryFromExistingPropagates(f, home, name) == FromExisting(f, home, name)

\* BifrostPath::try_from_existing : the error of from_existing is dropped and
\* a BifrostPath holding PathBuf::new() is returned in its place.
TryFromExisting(f, home, name) ==
    LET r == FromExisting(f, home, name) IN
    IF r.status = "Ok" \/ r.status = "Panic" THEN r
    ELSE [status |-> "Ok", path |-> Some(<<>>)]

\* A path that is the root when there is nothing better.
GetPathOrRoot(maybe) ==
    IF maybe.some /\ maybe.val /= <<>> THEN maybe.val ELSE <<RootDir>>

\* bifrost_path::get_path_or_empty
GetPathOrEmpty(maybe) == IF maybe.some THEN maybe.val ELSE <<>>

---------------------------------------------------------------------------
(* WorkingDir: construction and walk (core/workingdir.rs).                 *)

\* A set as a sequence, in one fixed order (the order read_dir lists in).
RECURSIVE SeqOf(_)
SeqOf(S) ==
    IF S = {} THEN <<>>
    ELSE LET x == CHOOSE y \in S : TRUE IN <<x>> \o SeqOf(S \ {x})

RECURSIVE Flatten(_)
Flatten(ss) == IF ss = <<>> THEN <<>> ELSE Head(ss) \o Flatten(Tail(ss))

RECURSIVE SumSeq(_)
SumSeq(ns) == IF ns = <<>> THEN 0 ELSE Head(ns) + SumSeq(Tail(ns))

\* WorkingDir::new(path).ignore(list)
NewWorkingDir(path, ignore) ==
    [root |-> path, parent |-> Parent(path), dirs |-> <<>>, files |-> <<>>,
     ignore_list |-> ignore, size |-> 0]

\* A filter that asks for the whole name.
IgnorableExact(name, ignore_list) == name \in ignore_list

\* ignorable : the filter of the WalkDir iterator.
Ignorable(name, ignore_list) ==
    IF ToStr(name).some
    THEN \E a \in ignore_list : StartsWith(ToStr(name).val, a)
    ELSE FALSE

\* The names read_dir lists in the directory at the canonical path c.
ReadDir(f, c) ==
    SeqOf({q[Len(q)] : q \in {q \in DOMAIN f : Len(q) = Len(c) + 1 /\ IsPrefix(c, q)}})

\* An iterator that yields the root and nothing below it.
WalkDirRootOnly(f, p, depth, ignore_list) ==
    IF ~MetadataOk(f, p) \/ Ignorable(FileName(p), ignore_list) THEN <<>>
    ELSE <<[path |-> p, depth |-> depth]>>

\* What WalkDir::new(root).into_iter().filter_entry(..) yields as Ok entries,
\* in order: an entry the filter rejects is skipped and not descended into,
\* a directory that cannot be read yields itself and then an error, which
\* walk drops.
RECURSIVE WalkDirFrom(_, _, _, _)
WalkDirFrom(f, p, depth, ignore_list) ==
    IF ~MetadataOk(f, p) THEN <<>>
    ELSE IF Ignorable(FileName(p), ignore_list) THEN <<>>
    ELSE LET c == Resolve(f, p)
             kids == IF f[c].kind = "dir" /\ f[c].readable
                     THEN ReadDir(f, c) ELSE <<>>
         IN <<[path |-> p, depth |-> depth]>> \o
            Flatten([i \in 1..Len(kids) |->
                        WalkDirFrom(f, Append(p, kids[i]), depth + 1, ignore_list)])

IsDirEntry(f, e) == IsDir(f, e.path)
IsFileEntry(f, e) == ~IsDir(f, e.path) /\ IsFile(f, e.path)

\* A walk that lists the files and leaves the running total alone.
WalkUncounted(f, wd) ==
    LET entries == WalkDirFrom(f, wd.root, 0, wd.ignore_list)
        ds == SelectSeq(entries, LAMBDA e : IsDirEntry(f, e))
        fl == SelectSeq(entries, LAMBDA e : IsFileEntry(f, e))
    IN [wd EXCEPT
          !.dirs = wd.dirs \o ds,
          !.files = wd.files \o [i \in 1..Len(fl) |-> fl[i].path]]

\* A walk whose filter is not asked about the root.
WalkRootUnfiltered(f, wd) ==
    LET entries == IF MetadataOk(f, wd.root)
                      /\ Ignorable(FileName(wd.root), wd.ignore_list)
                   THEN <<[path |-> wd.root, depth |-> 0]>>
                   ELSE WalkDirFrom(f, wd.root, 0, wd.ignore_list)
        ds == SelectSeq(entries, LAMBDA e : IsDirEntry(f, e))
        fl == SelectSeq(entries, LAMBDA e : IsFileEntry(f, e))
    IN [wd EXCEPT
          !.dirs = wd.dirs \o ds,
          !.files = wd.files \o [i \in 1..Len(fl) |-> fl[i].path],
          !.size = wd.size + SumSeq([i \in 1..Len(fl) |-> f[Resolve(f, fl[i].path)].size])]

\* WorkingDir::walk : directories are pushed on the heap, files on the
\* vector with their size added to the running total.
Walk(f, wd) ==
    LET entries == WalkDirFrom(f, wd.root, 0, wd.ignore_list)
        ds == SelectSeq(entries, LAMBDA e : IsDirEntry(f, e))
        fl == SelectSeq(entries, LAMBDA e : IsFileEntry(f, e))
    IN [wd EXCEPT
          !.dirs = wd.dirs \o ds,
          !.files = wd.files \o [i \in 1..Len(fl) |-> fl[i].path],
          !.size = wd.size + SumSeq([i \in 1..Len(fl) |-> f[Resolve(f, fl[i].path)].size])]

\* read_dir lists a directory in an order of the filesystem's choosing: the
\* order of ReadDir, or the other way round.
ListingOrders == {"forth", "back"}

ReadDirIn(f, c, o) ==
    IF o = "forth" THEN ReadDir(f, c)
    ELSE [i \in 1..Len(ReadDir(f, c)) |-> ReadDir(f, c)[Len(ReadDir(f, c)) + 1 - i]]

\* An iterator that goes down into the first listed entry only.
RECURSIVE WalkDirFromInFirstChild(_, _, _, _, _)
WalkDirFromInFirstChild(f, p, depth, ignore_list, o) ==
    IF ~MetadataOk(f, p) THEN <<>>
    ELSE IF Ignorable(FileName(p), ignore_list) THEN <<>>
    ELSE LET c == Resolve(f, p)
             kids == IF f[c].kind = "dir" /\ f[c].readable
                     THEN ReadDirIn(f, c, o) ELSE <<>>
         IN <<[path |-> p, depth |-> depth]>> \o
            (IF kids = <<>> THEN <<>>
             ELSE WalkDirFromInFirstChild(f, Append(p, kids[1]), depth + 1,
                                          ignore_list, o))

\* WalkDirFrom with the directories listed in the order o.
RECURSIVE WalkDirFromIn(_, _, _, _, _)
WalkDirFromIn(f, p, depth, ignore_list, o) ==
    IF ~MetadataOk(f, p) THEN <<>>
    ELSE IF Ignorable(FileName(p), ignore_list) THEN <<>>
    ELSE LET c == Resolve(f, p)
             kids == IF f[c].kind = "dir" /\ f[c].readable
                     THEN ReadDirIn(f, c, o) ELSE <<>>
         IN <<[path |-> p, depth |-> depth]>> \o
            Flatten([i \in 1..Len(kids) |->
                        WalkDirFromIn(f, Append(p, kids[i]), depth + 1,
                                      ignore_list, o)])

\* WorkingDir::walk with the directories listed in the order o.
WalkIn(f, wd, o) ==
    LET entries == WalkDirFromIn(f, wd.root, 0, wd.ignore_list, o)
        ds == SelectSeq(entries, LAMBDA e : IsDirEntry(f, e))
        fl == SelectSeq(entries, LAMBDA e : IsFileEntry(f, e))
    IN [wd EXCEPT
          !.dirs = wd.dirs \o ds,
          !.files = wd.files \o [i \in 1..Len(fl) |-> fl[i].path],
          !.size = wd.size + SumSeq([i \in 1..Len(fl) |-> f[Resolve(f, fl[i].path)].size])]

\* The three calls walk makes on the path of an entry, in order:
\* entry.path().is_dir(), entry.path().is_file(), fs::metadata(entry.path()).
StatCalls == 3

\* A walk during which entries are lost to the process (removed, or made
\* unreachable, by someone else): at[q] is the first of the three calls on q
\* that fails, StatCalls + 1 when none does.  A call that fails in is_dir or
\* is_file makes it false; the error of fs::metadata is unwrapped with
\* expect.  "Panic" carries the WorkingDir as it was when walk panicked.
WalkStat(f, wd, at) ==
    LET entries == WalkDirFrom(f, wd.root, 0, wd.ignore_list)
        from(e) == at[Resolve(f, e.path)]
        ds == SelectSeq(entries, LAMBDA e : IsDirEntry(f, e) /\ from(e) > 1)
        seen == SelectSeq(entries, LAMBDA e : IsFileEntry(f, e) /\ from(e) > 2)
        fatal == {i \in 1..Len(seen) : from(seen[i]) = StatCalls}
        stop == IF fatal = {} THEN Len(seen) + 1
                ELSE CHOOSE i \in fatal : \A j \in fatal : i =< j
        fl == SubSeq(seen, 1, stop - 1)
    IN [status |-> IF fatal = {} THEN "Ok" ELSE "Panic",
        wd |-> [wd EXCEPT
          !.dirs = wd.dirs \o SelectSeq(ds, LAMBDA e :
                      fatal = {} \/ \E i \in 1..Len(entries) :
                          /\ entries[i] = e
                          /\ \E j \in 1..Len(entries) :
                                entries[j] = seen[stop] /\ i < j),
          !.files = wd.files \o [i \in 1..Len(fl) |-> fl[i].path],
          !.size = wd.size + SumSeq([i \in 1..Len(fl) |-> f[Resolve(f, fl[i].path)].size])]]

---------------------------------------------------------------------------
(* WorkingDir: the load (core/workingdir.rs).                              *)

\* Largest number of I/O calls of one exec that fail for reasons outside the
\* model (permissions, a full disk).
MaxFaults == 1

CmpNat(x, y) == IF x < y THEN "Less" ELSE IF x = y THEN "Equal" ELSE "Greater"

\* The order of the depths as they are.
DirEntryExtCmpByDepth(self, other) == CmpNat(self.depth, other.depth)

\* impl Ord for DirEntryExt : other.0.depth().cmp(&self.0.depth())
DirEntryExtCmp(self, other) == CmpNat(other.depth, self.depth)

\* BinaryHeap::pop gives a greatest element; which one among equals is the
\* heap's business, so every greatest element is a possible pop.
HeapPopChoices(h) ==
    {i \in 1..Len(h) : \A j \in 1..Len(h) : DirEntryExtCmp(h[i], h[j]) /= "Less"}

RemoveAt(h, i) == SubSeq(h, 1, i - 1) \o SubSeq(h, i + 1, Len(h))

\* The state a load threads through its steps.
\*   ok      : no error has been returned yet
\*   fs      : the filesystem
\*   dirs    : what is left on the heap
\*   log     : the directories created, in order: source, depth, destination
\*   made    : canonical paths of the directories created
\*   wrote   : canonical paths of the files created
\*   bytes   : nbytes, the sum of what fs::copy returned
\*   faults  : outside failures so far
LoadState(f, dirs) ==
    [ok |-> TRUE, fs |-> f, dirs |-> dirs, log |-> <<>>, made |-> {},
     wrote |-> {}, bytes |-> 0, faults |-> 0]

\* One create_dir_all(to.path.join(suffix))? on the state st.
MakeDir(st, e, dst) ==
    LET r == CreateDirAll(st.fs, dst) IN
    (IF st.faults < MaxFaults
     THEN {[st EXCEPT !.ok = FALSE, !.faults = st.faults + 1]} ELSE {})
    \cup
    {IF r.ok
     THEN [st EXCEPT !.fs = r.fs, !.made = st.made \cup r.made,
                     !.log = Append(st.log, [src |-> e.path, depth |-> e.depth,
                                             dst |-> dst])]
     ELSE [st EXCEPT !.ok = FALSE]}

\* _load_top_level_dir (first) and _load_dir (the rest), for each popped
\* entry.  A suffix that cannot be built is an error for the first entry and
\* is passed over for the others.
RECURSIVE LoadDirs(_, _, _, _)
LoadDirs(st, parent, to, first) ==
    IF ~st.ok \/ st.dirs = <<>> THEN {st}
    ELSE UNION {
        LET e == st.dirs[i]
            popped == [st EXCEPT !.dirs = RemoveAt(st.dirs, i)]
            sfx == StripPrefix(e.path, parent)
        IN IF ~sfx.some
           THEN IF first THEN {[popped EXCEPT !.ok = FALSE]}
                ELSE LoadDirs(popped, parent, to, FALSE)
           ELSE UNION {LoadDirs(n, parent, to, FALSE) :
                         n \in MakeDir(popped, e, JoinPath(to, sfx.val))}
        : i \in HeapPopChoices(st.dirs)}

\* A copy that reports the bytes of the source and writes none of them.
FsCopyNothing(f, from, at) ==
    IF IsFile(f, from)
    THEN [ok |-> TRUE, fs |-> f, n |-> f[Resolve(f, from)].size]
    ELSE [ok |-> FALSE, fs |-> f, n |-> 0]

\* fs::copy(from, to) after File::create(to) made the file at the canonical
\* path at: the bytes of the source end up in the destination.
FsCopy(f, from, at) ==
    IF IsFile(f, from)
    THEN [ok |-> TRUE, fs |-> Put(f, at, File(f[Resolve(f, from)].size)),
          n |-> f[Resolve(f, from)].size]
    ELSE [ok |-> FALSE, fs |-> f, n |-> 0]

\* _load_files : for each file, File::create(&to)? and then fs::copy, whose
\* error is dropped.
RECURSIVE LoadFiles(_, _, _, _, _)
LoadFiles(st, files, i, parent, to) ==
    IF ~st.ok \/ i > Len(files) THEN {st}
    ELSE LET sfx == StripPrefix(files[i], parent) IN
         IF ~sfx.some THEN LoadFiles(st, files, i + 1, parent, to)
         ELSE LET dst == JoinPath(to, sfx.val)
                  cr == FileCreate(st.fs, dst)
                  cp == FsCopy(cr.fs, files[i], cr.at)
                  created == [st EXCEPT !.fs = cr.fs,
                                        !.wrote = st.wrote \cup {cr.at}]
              IN (IF st.faults < MaxFaults
                  THEN {[st EXCEPT !.ok = FALSE, !.faults = st.faults + 1]}
                  ELSE {})
                 \cup
                 (IF ~cr.ok THEN {[st EXCEPT !.ok = FALSE]}
                  ELSE (IF st.faults < MaxFaults
                        THEN LoadFiles([created EXCEPT !.faults = st.faults + 1],
                                       files, i + 1, parent, to)
                        ELSE {})
                       \cup
                       LoadFiles(IF cp.ok
                                 THEN [created EXCEPT !.fs = cp.fs,
                                                      !.bytes = st.bytes + cp.n]
                                 ELSE created,
                                 files, i + 1, parent, to))

\* A _load that leaves the target to the directories of the heap.
LoadWorkingDirNoRoot(st, wd, to) ==
    IF ~wd.parent.some \/ ~PathToStr(wd.parent.val).some
    THEN {[st |-> [st EXCEPT !.dirs = wd.dirs], status |-> "Panic"]}
    ELSE LET parent == Components(PathToStr(wd.parent.val).val)
             start == [st EXCEPT !.dirs = wd.dirs]
             dirsDone ==
                IF wd.dirs /= <<>> THEN LoadDirs(start, parent, to, TRUE)
                ELSE {start}
             done == UNION {LoadFiles(d, wd.files, 1, parent, to) : d \in dirsDone}
         IN {[st |-> d, status |-> IF d.ok THEN "Ok" ELSE "IOFailure"] : d \in done}

\* _load : the parent as a string, the directories, then the files.  With an
\* empty heap the target itself is created.  The outcomes carry a status:
\* "Ok", "IOFailure" (an error returned with ?) or "Panic" (an expect).
LoadWorkingDir(st, wd, to) ==
    IF ~wd.parent.some \/ ~PathToStr(wd.parent.val).some
    THEN {[st |-> [st EXCEPT !.dirs = wd.dirs], status |-> "Panic"]}
    ELSE LET parent == Components(PathToStr(wd.parent.val).val)
             start == [st EXCEPT !.dirs = wd.dirs]
             dirsDone ==
                IF wd.dirs /= <<>> THEN LoadDirs(start, parent, to, TRUE)
                ELSE LET r == CreateDirAll(st.fs, to) IN
                     (IF st.faults < MaxFaults
                      THEN {[start EXCEPT !.ok = FALSE, !.faults = st.faults + 1]}
                      ELSE {})
                     \cup
                     {IF r.ok THEN [start EXCEPT !.fs = r.fs,
                                                 !.made = st.made \cup r.made]
                      ELSE [start EXCEPT !.ok = FALSE]}
             done == UNION {LoadFiles(d, wd.files, 1, parent, to) : d \in dirsDone}
         IN {[st |-> d, status |-> IF d.ok THEN "Ok" ELSE "IOFailure"] : d \in done}

\* try_load : stop when the loaded bytes differ from the walked bytes.
\* before is nbytes of the caller, so the bytes of this WorkingDir are the
\* difference.
TryLoad(st, wd, to) ==
    {IF o.status = "Ok" /\ o.st.bytes - st.bytes /= wd.size
     THEN [o EXCEPT !.status = "IncompleteLoad"] ELSE o
     : o \in LoadWorkingDir(st, wd, to)}

---------------------------------------------------------------------------
(* WorkSpaceBuilder and its helpers (core/workspace.rs).                   *)

DEFAULT_TOML_NAME ==
    <<"w", "o", "r", "k", "s", "p", "a", "c", "e", " ", "n", "a", "m", "e">>
DOT_BIFORST == <<".", "b", "i", "f", "o", "r", "s", "t">>

\* Path::new of a string standing alone: as Components, but a leading "."
\* piece is kept.
PathNew(s) ==
    (IF s /= <<>> /\ s[1] /= "/" /\ Head(Segs(s)) = CurDir
     THEN <<CurDir>> ELSE <<>>) \o Components(s)

\* WorkSpaceBuilder::get_name : the manifest's name, or the file name of the
\* current directory.  None stands for the panic of name_from_cwd.
GetName(c) ==
    IF c.manifest_name.some /\ c.manifest_name.val /= DEFAULT_TOML_NAME
    THEN c.manifest_name
    ELSE IF ~Parent(c.cwd).some THEN None
    ELSE ToStr(FileName(c.cwd))

\* strip_trailing_slash
StripTrailingSlash(name) ==
    IF Len(name) > 1 /\ (name[Len(name)] = "\\" \/ name[Len(name)] = "/")
    THEN SubSeq(name, 1, Len(name) - 1) ELSE name

\* strip
Strip(names) == [i \in 1..Len(names) |-> StripTrailingSlash(names[i])]

\* is_loadable, with check's unwrap_or(false) for the error of read_dir.
IsLoadable(f, c, name) ==
    IF c.home = PathNew(name) THEN FALSE
    ELSE IF Contains(name, DOT_BIFORST) \/ Contains(name, CONTAINER) THEN FALSE
    ELSE IF ~IsDir(f, c.cwd) \/ ~f[Resolve(f, c.cwd)].readable THEN FALSE
    ELSE \E i \in 1..Len(ReadDir(f, Resolve(f, c.cwd))) :
            ReadDir(f, Resolve(f, c.cwd))[i] = name

\* check(config, names, is_loadable)
CheckNames(f, c, names) == SelectSeq(names, LAMBDA n : IsLoadable(f, c, n))

\* to_abs_paths : for each entry of the directory, once per matching name.
ToAbsPaths(f, cwd, paths) ==
    IF paths = <<>> \/ ~IsDir(f, cwd) \/ ~f[Resolve(f, cwd)].readable THEN <<>>
    ELSE LET ents == ReadDir(f, Resolve(f, cwd)) IN
         Flatten([i \in 1..Len(ents) |->
            [j \in 1..Len(SelectSeq(paths, LAMBDA n : n = ents[i])) |->
                Append(cwd, ents[i])]])

\* WorkSpaceBuilder::args_to_paths
ArgsToPaths(f, c, args) == ToAbsPaths(f, c.cwd, CheckNames(f, c, Strip(args)))

---------------------------------------------------------------------------
(* The operation spaces (core/workspace.rs).                               *)

Slots == {1, 2}

NoSpace ==
    [kind |-> "none", status |-> "none", name |-> None, target |-> None,
     contents |-> None, size |-> 0, opts |-> "none", cmd |-> None,
     manifest_cmd |-> None, hist |-> <<>>]

NoResult ==
    [op |-> "none", status |-> "none", bytes |-> None, text |-> None,
     log |-> <<>>, made |-> {}, wrote |-> {}, copied |-> 0, gone |-> {},
     name |-> None, path |-> None, wd |-> None, before |-> None,
     stat |-> None, faults |-> 0]

NoEffect ==
    [written |-> {}, deleted |-> {}, listed |-> {}, spawned |-> {}, nops |-> 0,
     runs |-> <<>>]

Outcome(op, status) == [NoResult EXCEPT !.op = op, !.status = status]

\* WorkSpaceArgs::to_load_space : the WorkingDirs of the proposed contents,
\* None when contents were passed and none is loadable (process::exit(1)).
LoadContentsOf(f, c, args) ==
    IF args = <<>> THEN Some(<<NewWorkingDir(c.cwd, c.ignore)>>)
    ELSE LET paths == ArgsToPaths(f, c, args) IN
         IF paths = <<>> THEN None
         ELSE Some([i \in 1..Len(paths) |-> NewWorkingDir(paths[i], c.ignore)])

\* WorkSpace::to_load_space / to_show_space / to_unload_space / to_run_space
NewSpace(f, c, kind, args, opts) ==
    [kind |-> kind,
     status |-> IF ~GetName(c).some THEN "panicked"
                ELSE IF kind = "load" /\ ~LoadContentsOf(f, c, args).some
                     THEN "exited" ELSE "live",
     name |-> GetName(c),
     target |-> None,
     contents |-> IF kind = "load" THEN LoadContentsOf(f, c, args) ELSE None,
     size |-> 0,
     opts |-> IF kind = "show" THEN opts ELSE "none",
     cmd |-> None,
     manifest_cmd |-> c.command,
     hist |-> <<>>]

\* LoadSpace::build : every WorkingDir is popped off the end and walked.
Reverse(q) == [i \in 1..Len(q) |-> q[Len(q) + 1 - i]]

\* A build that walks the WorkingDir it pops first and drops the others.
BuildLoadLastOnly(f, s) ==
    IF ~s.contents.some \/ s.contents.val = <<>> THEN s
    ELSE LET walked == <<Walk(f, s.contents.val[Len(s.contents.val)])>>
         IN [s EXCEPT !.size = walked[1].size, !.contents = Some(walked)]

BuildLoad(f, s) ==
    IF ~s.contents.some THEN s
    ELSE LET walked == [i \in 1..Len(s.contents.val) |->
                           Walk(f, Reverse(s.contents.val)[i])]
         IN [s EXCEPT !.size = SumSeq([i \in 1..Len(walked) |-> walked[i].size]),
                      !.contents = Some(walked)]

\* LoadSpace::load, the loop over the contents: each WorkingDir is loaded in
\* turn, and the first error ends the loop.
RECURSIVE LoadContents(_, _, _, _)
LoadContents(st, wds, i, to) ==
    IF i > Len(wds) THEN {[st |-> st, status |-> "Ok", wds |-> wds]}
    ELSE UNION {
        LET left == [wds EXCEPT ![i].dirs = o.st.dirs] IN
        IF o.status /= "Ok"
        THEN {[st |-> o.st, status |-> o.status, wds |-> left]}
        ELSE LoadContents(o.st, left, i + 1, to)
        : o \in TryLoad(st, wds[i], to)}

\* A load that reports success whatever the loop returned.
LoadSpaceLoadUnchecked(f, s) ==
    {[o EXCEPT !.status = "Ok"]
     : o \in LoadContents(LoadState(f, <<>>),
                          IF s.contents.some THEN s.contents.val ELSE <<>>,
                          1, s.target.val)}

\* A load that takes 0 copied bytes for an incomplete load.
LoadSpaceLoadNeedsBytes(f, s) ==
    LET wds == IF s.contents.some THEN s.contents.val ELSE <<>> IN
    {[o EXCEPT !.status =
        IF o.status /= "Ok" THEN o.status
        ELSE IF o.st.bytes /= s.size \/ o.st.bytes = 0 THEN "IncompleteLoad"
        ELSE IF ~s.name.some THEN "Panic"
        ELSE "Ok"]
     : o \in LoadContents(LoadState(f, <<>>), wds, 1, s.target.val)}

\* A load that takes back what it wrote when it does not return success.
LoadSpaceLoadRollsBack(f, s) ==
    LET wds == IF s.contents.some THEN s.contents.val ELSE <<>> IN
    {IF o.status /= "Ok" THEN [o EXCEPT !.st.fs = f]
     ELSE IF o.st.bytes /= s.size
          THEN [o EXCEPT !.status = "IncompleteLoad", !.st.fs = f]
     ELSE IF ~s.name.some THEN [o EXCEPT !.status = "Panic"]
     ELSE o
     : o \in LoadContents(LoadState(f, <<>>), wds, 1, s.target.val)}

\* LoadSpace::load after the target was unwrapped: the loop, the comparison
\* with WorkSpace::size, and the name.
LoadSpaceLoad(f, s) ==
    LET wds == IF s.contents.some THEN s.contents.val ELSE <<>> IN
    {[o EXCEPT !.status =
        IF o.status /= "Ok" THEN o.status
        ELSE IF o.st.bytes /= s.size THEN "IncompleteLoad"
        ELSE IF ~s.name.some THEN "Panic"
        ELSE "Ok"]
     : o \in LoadContents(LoadState(f, <<>>), wds, 1, s.target.val)}


\* hofund::remove_dir_all : the directory the path resolves to goes, with
\* everything below it.
RemoveDirAll(f, p) ==
    IF ~IsDir(f, p) \/ Resolve(f, p) = <<RootDir>>
    THEN [ok |-> FALSE, fs |-> f, gone |-> {}]
    ELSE [ok |-> TRUE, fs |-> Without(f, Subtree(f, Resolve(f, p))),
          gone |-> Subtree(f, Resolve(f, p))]

---------------------------------------------------------------------------
(* Actions.                                                                *)

Live(i) == sp[i].status = "live" /\ Len(sp[i].hist) < MaxCalls

Called(s, op) == [s EXCEPT !.hist = Append(s.hist, op)]

\* A new invocation in slot i: WorkSpace::to_*_space(config, args).  The
\* space that was there is dropped.
Construct(i) ==
    /\ i \in cfg.procs
    /\ eff.nops < MaxOps
    /\ sp[i].status /= "live" \/ sp[i].hist /= <<>>
    /\ \E kind \in cfg.kinds, args \in cfg.args,
          opts \in {"none", "verbose"} :
          /\ kind /= "load" => args = <<>>
          /\ kind /= "show" => opts = "none"
          /\ sp' = [sp EXCEPT ![i] = NewSpace(fs, cfg, kind, args, opts)]
          /\ res' = [res EXCEPT ![i] =
                [Outcome("construct", NewSpace(fs, cfg, kind, args, opts).status)
                    EXCEPT !.name = Some(args)]]
    /\ eff' = [eff EXCEPT !.nops = eff.nops + 1]
    /\ UNCHANGED <<fs, cfg>>

\* A prep of a LoadSpace that takes the target as a lock: it is refused
\* while another live LoadSpace holds the same target.
PrepLoadExclusive(i) ==
    /\ Live(i) /\ sp[i].kind = "load"
    /\ LET s == sp[i]
           r == BifrostPathNew(fs, cfg.home, s.name)
           held == \E j \in Slots \ {i} :
                      sp[j].kind = "load" /\ sp[j].target.some
                          /\ sp[j].target = r.path
       IN IF s.target.some
          THEN /\ sp' = [sp EXCEPT ![i] = Called(s, "prep")]
               /\ res' = [res EXCEPT ![i] = Outcome("prep", "AlreadyPrepared")]
          ELSE /\ sp' = [sp EXCEPT ![i] =
                    [Called(s, "prep") EXCEPT
                        !.target = IF held THEN None ELSE r.path,
                        !.status = IF r.status = "AlreadyExists" \/ held
                                   THEN "exited" ELSE "live"]]
               /\ res' = [res EXCEPT ![i] =
                    IF held THEN Outcome("prep", "AlreadyExists")
                    ELSE [Outcome("prep", r.status) EXCEPT !.path = r.path]]
    /\ UNCHANGED <<fs, cfg, eff>>

\* A prep of a LoadSpace that probes and sets the target on every call.
PrepLoadAgain(i) ==
    /\ Live(i) /\ sp[i].kind = "load"
    /\ LET s == sp[i]
           r == BifrostPathNew(fs, cfg.home, s.name)
       IN /\ sp' = [sp EXCEPT ![i] =
                [Called(s, "prep") EXCEPT
                    !.target = r.path,
                    !.status = IF r.status = "AlreadyExists"
                               THEN "exited" ELSE "live"]]
          /\ res' = [res EXCEPT ![i] =
                [Outcome("prep", r.status) EXCEPT !.path = r.path]]
    /\ UNCHANGED <<fs, cfg, eff>>

\* LoadSpace::prep
PrepLoad(i) ==
    /\ Live(i) /\ sp[i].kind = "load"
    /\ LET s == sp[i]
           r == BifrostPathNew(fs, cfg.home, s.name)
       IN IF s.target.some
          THEN /\ sp' = [sp EXCEPT ![i] = Called(s, "prep")]
               /\ res' = [res EXCEPT ![i] = Outcome("prep", "AlreadyPrepared")]
          ELSE /\ sp' = [sp EXCEPT ![i] =
                    [Called(s, "prep") EXCEPT
                        !.target = r.path,
                        !.status = IF r.status = "AlreadyExists"
                                   THEN "exited" ELSE "live"]]
               /\ res' = [res EXCEPT ![i] =
                    [Outcome("prep", r.status) EXCEPT !.path = r.path]]
    /\ UNCHANGED <<fs, cfg, eff>>

\* ShowSpace::prep and UnloadSpace::prep
PrepExisting(i) ==
    /\ Live(i) /\ sp[i].kind \in {"show", "unload"}
    /\ LET s == sp[i]
           r == TryFromExisting(fs, cfg.home, s.name)
       IN /\ sp' = [sp EXCEPT ![i] =
                [Called(s, "prep") EXCEPT
                    !.target = IF r.status = "Ok" THEN r.path ELSE s.target,
                    !.status = IF r.status = "Panic" THEN "panicked" ELSE "live"]]
          /\ res' = [res EXCEPT ![i] =
                [Outcome("prep", r.status) EXCEPT !.path = r.path]]
    /\ UNCHANGED <<fs, cfg, eff>>

\* BifrostManifest::take_command_config : the command list is handed out
\* and none is left in the manifest.
TakeCommandConfig(m) == [taken |-> m, left |-> None]

\* A prep that reads the command list and leaves it in the manifest.
PrepRunKeeps(i) ==
    /\ Live(i) /\ sp[i].kind = "run"
    /\ LET s == sp[i]
           r == TryFromExisting(fs, cfg.home, s.name)
       IN /\ sp' = [sp EXCEPT ![i] =
                IF r.status = "Panic"
                THEN [Called(s, "prep") EXCEPT !.status = "panicked"]
                ELSE [Called(s, "prep") EXCEPT
                        !.target = r.path,
                        !.cmd = s.manifest_cmd]]
          /\ res' = [res EXCEPT ![i] =
                [Outcome("prep", r.status) EXCEPT !.path = r.path]]
    /\ UNCHANGED <<fs, cfg, eff>>

\* RunSpace::prep : the target, then the command is taken out of the config.
PrepRun(i) ==
    /\ Live(i) /\ sp[i].kind = "run"
    /\ LET s == sp[i]
           r == TryFromExisting(fs, cfg.home, s.name)
       IN /\ sp' = [sp EXCEPT ![i] =
                IF r.status = "Panic"
                THEN [Called(s, "prep") EXCEPT !.status = "panicked"]
                ELSE [Called(s, "prep") EXCEPT
                        !.target = r.path,
                        !.cmd = TakeCommandConfig(s.manifest_cmd).taken,
                        !.manifest_cmd = TakeCommandConfig(s.manifest_cmd).left]]
          /\ res' = [res EXCEPT ![i] =
                [Outcome("prep", r.status) EXCEPT !.path = r.path]]
    /\ UNCHANGED <<fs, cfg, eff>>

\* A build of a LoadSpace that also makes the target directory.
BuildLoadSpaceCreates(i) ==
    /\ Live(i) /\ sp[i].kind = "load"
    /\ sp' = [sp EXCEPT ![i] = Called(BuildLoad(fs, sp[i]), "build")]
    /\ res' = [res EXCEPT ![i] = Outcome("build", "Ok")]
    /\ fs' = IF sp[i].target.some
             THEN CreateDirAll(fs, sp[i].target.val).fs ELSE fs
    /\ UNCHANGED <<cfg, eff>>

\* LoadSpace::build
BuildLoadSpace(i) ==
    /\ Live(i) /\ sp[i].kind = "load"
    /\ sp' = [sp EXCEPT ![i] = Called(BuildLoad(fs, sp[i]), "build")]
    /\ res' = [res EXCEPT ![i] = Outcome("build", "Ok")]
    /\ UNCHANGED <<fs, cfg, eff>>

\* ShowSpace::build, UnloadSpace::build, RunSpace::build
BuildOther(i) ==
    /\ Live(i) /\ sp[i].kind \in {"show", "unload", "run"}
    /\ sp' = [sp EXCEPT ![i] = Called(sp[i], "build")]
    /\ res' = [res EXCEPT ![i] = Outcome("build", "Ok")]
    /\ UNCHANGED <<fs, cfg, eff>>

\* An exec of a LoadSpace that returns an error where the target is missing.
ExecLoadReturns(i) ==
    /\ Live(i) /\ sp[i].kind = "load" /\ ~sp[i].target.some
    /\ sp' = [sp EXCEPT ![i] = Called(sp[i], "exec")]
    /\ res' = [res EXCEPT ![i] = Outcome("exec", "NoTarget")]
    /\ UNCHANGED <<fs, cfg, eff>>

\* LoadSpace::exec
ExecLoad(i) ==
    /\ Live(i) /\ sp[i].kind = "load"
    /\ LET s == sp[i] IN
       IF ~s.target.some
       THEN /\ sp' = [sp EXCEPT ![i] = [Called(s, "exec") EXCEPT !.status = "panicked"]]
            /\ res' = [res EXCEPT ![i] = Outcome("exec", "Panic")]
            /\ UNCHANGED <<fs, eff>>
       ELSE \E o \in LoadSpaceLoad(fs, s) :
            /\ fs' = o.st.fs
            /\ sp' = [sp EXCEPT ![i] =
                  [Called(s, "exec") EXCEPT
                      !.contents = IF s.contents.some THEN Some(o.wds) ELSE None,
                      !.status = IF o.status = "Panic" THEN "panicked" ELSE "live"]]
            /\ res' = [res EXCEPT ![i] =
                  [Outcome("exec", o.status) EXCEPT
                      !.bytes = IF o.status = "Ok" THEN Some(o.st.bytes) ELSE None,
                      !.name = IF o.status = "Ok" THEN s.name ELSE None,
                      !.log = o.st.log, !.made = o.st.made, !.wrote = o.st.wrote,
                      !.copied = o.st.bytes, !.before = Some(s),
                      !.faults = o.st.faults]]
            /\ eff' = [eff EXCEPT !.written = @ \cup o.st.made \cup o.st.wrote]
    /\ UNCHANGED cfg

\* ShowSpace::exec : show_all or show_default, which differ in the flags
\* given to ls.
ExecShow(i) ==
    /\ Live(i) /\ sp[i].kind = "show"
    /\ LET s == sp[i]
           cd == s.target.some /\ IsDir(fs, s.target.val)
       IN /\ sp' = [sp EXCEPT ![i] = Called(s, "exec")]
          /\ res' = [res EXCEPT ![i] =
                IF s.target.some /\ ~cd THEN Outcome("exec", "IOFailure")
                ELSE [Outcome("exec", "Ok") EXCEPT
                        !.name = s.name,
                        !.text = IF cd THEN Some(Resolve(fs, s.target.val)) ELSE None]]
          /\ eff' = [eff EXCEPT !.listed =
                IF cd THEN @ \cup {Resolve(fs, s.target.val)} ELSE @]
    /\ UNCHANGED <<fs, cfg>>

\* An unload that reports success and removes nothing.
ExecUnloadKeeps(i) ==
    /\ Live(i) /\ sp[i].kind = "unload"
    /\ sp' = [sp EXCEPT ![i] = Called(sp[i], "exec")]
    /\ res' = [res EXCEPT ![i] = [Outcome("exec", "Ok") EXCEPT !.name = sp[i].name]]
    /\ UNCHANGED <<fs, cfg, eff>>

\* UnloadSpace::exec
ExecUnload(i) ==
    /\ Live(i) /\ sp[i].kind = "unload"
    /\ LET s == sp[i]
           r == RemoveDirAll(fs, s.target.val)
       IN IF s.target.some /\ r.ok
          THEN /\ fs' = r.fs
               /\ sp' = [sp EXCEPT ![i] = Called(s, "exec")]
               /\ res' = [res EXCEPT ![i] =
                    [Outcome("exec", "Ok") EXCEPT !.name = s.name, !.gone = r.gone]]
               /\ eff' = [eff EXCEPT !.deleted = @ \cup r.gone]
          ELSE /\ sp' = [sp EXCEPT ![i] = [Called(s, "exec") EXCEPT !.status = "exited"]]
               /\ res' = [res EXCEPT ![i] = Outcome("exec", "Exit")]
               /\ UNCHANGED <<fs, eff>>
    /\ UNCHANGED cfg

\* A run that falls back on the command list still held by the manifest.
ExecRunFromManifest(i) ==
    /\ Live(i) /\ sp[i].kind = "run"
    /\ LET s == sp[i]
           c == IF s.cmd.some THEN s.cmd ELSE s.manifest_cmd
           go == c.some /\ c.val.cmds.some
       IN /\ sp' = [sp EXCEPT ![i] = Called(s, "exec")]
          /\ res' = [res EXCEPT ![i] =
                IF go THEN [Outcome("exec", "Ok") EXCEPT !.name = s.name]
                ELSE Outcome("exec", "NoCommand")]
          /\ eff' = [eff EXCEPT !.spawned = IF go THEN @ \cup {s.name.val} ELSE @]
    /\ UNCHANGED <<fs, cfg>>

\* RunSpace::exec
ExecRun(i) ==
    /\ Live(i) /\ sp[i].kind = "run"
    /\ LET s == sp[i]
           go == s.cmd.some /\ s.cmd.val.cmds.some
       IN /\ sp' = [sp EXCEPT ![i] = Called(s, "exec")]
          /\ res' = [res EXCEPT ![i] =
                IF go THEN [Outcome("exec", "Ok") EXCEPT !.name = s.name]
                ELSE Outcome("exec", "NoCommand")]
          /\ eff' = [eff EXCEPT !.spawned = IF go THEN @ \cup {s.name.val} ELSE @]
    /\ UNCHANGED <<fs, cfg>>

Next ==
    \E i \in Slots :
        \/ Construct(i)
        \/ PrepLoad(i)
        \/ PrepExisting(i)
        \/ PrepRun(i)
        \/ BuildLoadSpace(i)
        \/ BuildOther(i)
        \/ ExecLoad(i)
        \/ ExecShow(i)
        \/ ExecUnload(i)
        \/ ExecRun(i)

---------------------------------------------------------------------------
(* Initial states.                                                         *)

Home == <<RootDir, <<"h">>>>
Cwd == Home \o << <<"p">> >>

\* The filesystem holding the entries of a set of <<path, entry>> pairs.
FsOf(pairs) ==
    [q \in {x[1] : x \in pairs} |-> (CHOOSE x \in pairs : x[1] = q)[2]]

\* "/" and the home directory.
HomeEntries == {<<<<RootDir>>, Dir(TRUE)>>, <<Home, Dir(TRUE)>>}

\* What `bifrost setup` leaves: the container root with its Dockerfile and
\* the directories above.
SetupEntries ==
    {<<Join(Home, DOT_BIFROST), Dir(TRUE)>>,
     <<Join(Join(Home, DOT_BIFROST), CONTAINER), Dir(TRUE)>>,
     <<ContainerPath(Home), Dir(TRUE)>>,
     <<Append(ContainerPath(Home),
              <<"D", "o", "c", "k", "e", "r", "f", "i", "l", "e">>), File(1)>>}

\* A realm left in the container by an earlier load.
RealmEntries(name) ==
    {<<Append(ContainerPath(Home), name), Dir(TRUE)>>,
     <<ContainerPath(Home) \o <<name, <<"a">>>>, File(1)>>}

\* The project of the default specification: p/{a, d/{b}}.
ProjectEntries ==
    {<<Cwd, Dir(TRUE)>>, <<Append(Cwd, <<"a">>), File(1)>>,
     <<Append(Cwd, <<"d">>), Dir(TRUE)>>,
     <<Cwd \o << <<"d">>, <<"b">> >>, File(1)>>}

\* The realm names a manifest can give; None leaves the name to the current
\* directory, which is p.
ManifestNames ==
    {None, Some(<<>>), Some(ParentDir), Some(<<"/", "h">>), Some(TMP),
     Some(<<".", "p">>)}

BaseConfig ==
    [home |-> Home, cwd |-> Cwd, manifest_name |-> None, ignore |-> {},
     command |-> Some([cmds |-> Some(<<"c">>)]), args |-> {<<>>}, procs |-> {1},
     kinds |-> {"load", "show", "unload", "run"}]

InitRest ==
    /\ sp = [i \in Slots |-> NoSpace]
    /\ res = [i \in Slots |-> NoResult]
    /\ eff = NoEffect

Init ==
    /\ \E setup \in SUBSET SetupEntries, realms \in SUBSET {TMP, <<"p">>} :
          /\ setup \in {{}, SetupEntries}
          /\ realms /= {} => setup /= {}
          /\ fs = FsOf(HomeEntries \cup ProjectEntries \cup setup
                        \cup UNION {RealmEntries(n) : n \in realms})
    /\ \E n \in ManifestNames :
          cfg = [BaseConfig EXCEPT !.manifest_name = n]
    /\ InitRest

Spec == Init /\ [][Next]_vars


---------------------------------------------------------------------------
(* The path guard inside the operations.                                   *)

\* A path strictly beneath the container root of the home directory.
BeneathContainer(q) ==
    IsPrefix(ContainerPath(Home), q) /\ Len(q) > Len(ContainerPath(Home))

\* The target a prepared space holds, if any.
Prepared(i) ==
    sp[i].kind /= "none" /\ sp[i].target.some
        /\ \E k \in 1..Len(sp[i].hist) : sp[i].hist[k] = "prep"

\* C1: every target held after prepare is <home>/.bifrost/container/bifrost/<n>
\* with n one non-empty component other than "..", and every path an
\* operation has deleted or written lies strictly beneath the container root
\* (a missing container root and the directories above it may be created on
\* the way to a target beneath it).
C1_TargetsConfined ==
    /\ \A i \in Slots :
          Prepared(i) =>
              \E n \in {FileName(sp[i].target.val)} :
                  /\ sp[i].target.val = Append(ContainerPath(Home), n)
                  /\ IsNormalSeg(n) /\ n /= ParentDir /\ n /= RootDir
    /\ \A q \in eff.deleted : BeneathContainer(q)
    /\ \A q \in eff.written :
          BeneathContainer(q) \/ IsPrefix(q, ContainerPath(Home))

\* C4: the realm name of a target that a prepared space holds is not a
\* blacklisted token and does not begin with a dot.
C4_TargetNameNotBlacklisted ==
    \A i \in Slots :
        (Prepared(i) /\ sp[i].target.val /= <<>>) =>
            /\ sp[i].name.val \notin BlackList
            /\ ~StartsWith(sp[i].name.val, <<".">>)


\* The home directory itself has been deleted by an unload.
C1_HomeDeleted == Home \in eff.deleted

\* A load has written a path that is neither beneath the container root nor
\* a directory on the way to it.
C1_WrittenOutside ==
    \E q \in eff.written :
        ~BeneathContainer(q) /\ ~IsPrefix(q, ContainerPath(Home))

\* A prepared unload holds the existing realm directory named tmp.
C4_BlacklistedTarget ==
    \E i \in Slots :
        /\ Prepared(i) /\ sp[i].kind = "unload"
        /\ sp[i].name.val = TMP
        /\ sp[i].target.val = Append(ContainerPath(Home), TMP)


---------------------------------------------------------------------------
(* The path guard on its own: the constructors applied to a name.          *)

\* The names handed to a constructor; None is the absent name.
GuardNames ==
    ManifestNames \cup
    {Some(<<"p">>), Some(DOT_BIFROST), Some(CONTAINER), Some(BIFROST_CONTAINER),
     Some(DOT_BIFROST_CONFIG)}

\* Disks for the guard: the container set up or not, and what is in it; an
\* entry at the candidate path may be a directory or a plain file.
InitGuard ==
    /\ \E setup \in {{}, SetupEntries},
          realms \in SUBSET {TMP, <<"p">>, <<".", "p">>},
          files \in SUBSET {<<"p">>} :
          /\ (realms /= {} \/ files /= {}) => setup /= {}
          /\ files \cap realms = {}
          /\ fs = FsOf(HomeEntries \cup ProjectEntries \cup setup
                        \cup UNION {RealmEntries(n) : n \in realms}
                        \cup {<<Append(ContainerPath(Home), n), File(1)>> : n \in files})
    /\ cfg = BaseConfig
    /\ InitRest

ApplyNew ==
    \E name \in GuardNames :
        /\ res' = [res EXCEPT ![1] =
              [Outcome("new", BifrostPathNew(fs, cfg.home, name).status) EXCEPT
                  !.name = name,
                  !.path = BifrostPathNew(fs, cfg.home, name).path]]
        /\ UNCHANGED <<fs, cfg, sp, eff>>

ApplyFromExisting ==
    \E name \in GuardNames :
        /\ res' = [res EXCEPT ![1] =
              [Outcome("from_existing", FromExisting(fs, cfg.home, name).status) EXCEPT
                  !.name = name,
                  !.path = FromExisting(fs, cfg.home, name).path]]
        /\ UNCHANGED <<fs, cfg, sp, eff>>

ApplyTryFromExisting ==
    \E name \in GuardNames :
        /\ res' = [res EXCEPT ![1] =
              [Outcome("try_from_existing",
                       TryFromExisting(fs, cfg.home, name).status) EXCEPT
                  !.name = name,
                  !.path = TryFromExisting(fs, cfg.home, name).path]]
        /\ UNCHANGED <<fs, cfg, sp, eff>>

NextGuard == ApplyNew \/ ApplyFromExisting \/ ApplyTryFromExisting

SpecGuard == InitGuard /\ [][NextGuard]_vars

\* The candidate path of the name in the last result exists on disk.
CandidateExists ==
    MetadataOk(fs, Join(ContainerPath(Home), res[1].name.val))

C3_ExistingFailsWithNotFound ==
    (res[1].op = "try_from_existing" /\ res[1].name.some) =>
        /\ res[1].status = "Ok" <=> CandidateExists
        /\ ~CandidateExists => (res[1].status = "NotFound" /\ ~res[1].path.some)

\* C3: try_from_existing, which the prepare steps call, does not fail for a
\* present name: it returns the candidate path when an entry exists there and
\* the empty path when the metadata cannot be read.  NotFound, with no path,
\* is what the inner from_existing returns in that case.
C3_TryFromExistingNeverFails ==
    /\ (res[1].op = "try_from_existing" /\ res[1].name.some) =>
          /\ res[1].status = "Ok"
          /\ CandidateExists =>
                res[1].path = Some(Join(ContainerPath(Home), res[1].name.val))
          /\ ~CandidateExists => res[1].path = Some(<<>>)
    /\ (res[1].op = "from_existing" /\ res[1].name.some) =>
          /\ res[1].status = "Ok" <=> CandidateExists
          /\ CandidateExists =>
                res[1].path = Some(Join(ContainerPath(Home), res[1].name.val))
          /\ ~CandidateExists => (res[1].status = "NotFound" /\ ~res[1].path.some)

\* try_from_existing was applied to a name with nothing at its candidate path
\* and returned the empty path.
C3_Witness ==
    /\ res[1].op = "try_from_existing" /\ res[1].name = Some(<<"p">>)
    /\ ~CandidateExists
    /\ res[1].status = "Ok" /\ res[1].path = Some(<<>>)


---------------------------------------------------------------------------
(* The walker on its own: walk applied to a tree.                          *)

\* File names in the trees: t, tx (t is a prefix of it), s, and t followed
\* by a byte that is not valid UTF-8.
NodeNames == {<<"t">>, <<"t", "x">>, <<"s">>, <<"t", BadByte>>}

\* Names an ignore list can hold; p is the name of the walked root.
IgnoreNames == {<<"t">>, <<"s">>, <<"p">>}

IgnoreLists == {L \in SUBSET IgnoreNames : Cardinality(L) =< MaxIgnore}

\* The sets of at most n relative paths over the names that hold the parent
\* of each of their members.
RECURSIVE Shapes(_, _)
Shapes(names, n) ==
    IF n = 0 THEN {{}}
    ELSE LET prev == Shapes(names, n - 1) IN
         prev \cup UNION {
            {S \cup {x} : x \in ({<<a>> : a \in names}
                                  \cup {Append(q, a) : q \in S, a \in names}) \ S}
            : S \in prev}

HasChild(S, q) == \E r \in S : Len(r) = Len(q) + 1 /\ IsPrefix(q, r)

\* What an entry can be: a directory that can or cannot be read, a file of
\* some size, or something that is neither.
AllKinds == {Dir(TRUE), Dir(FALSE), Special} \cup {File(n) : n \in 0..MaxSize}

\* Only directories hold entries.
Kinds(S, q, kinds) ==
    IF HasChild(S, q) THEN {k \in kinds : k.kind = "dir"} ELSE kinds

\* The entries of the trees of at most n nodes below the directory at root.
Trees(root, names, n, kinds) ==
    UNION {{{<<root \o q, lab[q]>> : q \in S} :
              lab \in {l \in [S -> kinds] :
                          \A q \in S : l[q] \in Kinds(S, q, kinds)}}
           : S \in Shapes(names, n)}

InitWalk ==
    /\ \E tree \in Trees(Cwd, NodeNames, MaxNodes, AllKinds),
          top \in {Dir(TRUE), Dir(FALSE), File(MaxSize)} :
          /\ top.kind /= "dir" => tree = {}
          /\ fs = FsOf(HomeEntries \cup {<<Cwd, top>>} \cup tree)
    /\ cfg = BaseConfig
    /\ InitRest

\* WorkingDir::new(cwd).ignore(list).walk()
ApplyWalk ==
    /\ res[1].op = "none"
    /\ \E L \in IgnoreLists :
          res' = [res EXCEPT ![1] =
              [Outcome("walk", "Ok") EXCEPT
                  !.wd = Some(Walk(fs, NewWorkingDir(cfg.cwd, L)))]]
    /\ UNCHANGED <<fs, cfg, sp, eff>>

\* walk() on a WorkingDir that was walked before.
ApplyWalkAgain ==
    /\ res[1].op = "walk"
    /\ res' = [res EXCEPT ![1] =
          [Outcome("walk again", "Ok") EXCEPT
              !.wd = Some(Walk(fs, res[1].wd.val))]]
    /\ UNCHANGED <<fs, cfg, sp, eff>>

NextWalk == ApplyWalk \/ ApplyWalkAgain

SpecWalk == InitWalk /\ [][NextWalk]_vars


\* The WorkingDir of the last walk and the paths it lists.
Walked == res[1].wd.val
WalkedPaths ==
    {Walked.dirs[i].path : i \in 1..Len(Walked.dirs)}
        \cup {Walked.files[i] : i \in 1..Len(Walked.files)}

\* The file names on the way from the walked root down to q, both included.
NamesFromRoot(q) == {q[k] : k \in Len(Cwd)..Len(q)}

\* The name has a member of L as a literal prefix.
PrefixIn(n, L) == \E a \in L : StartsWith(n, a)

\* How many times x occurs in a sequence.
Count(seq, x) == Cardinality({i \in 1..Len(seq) : seq[i] = x})

\* C7 as stated: no listed entry has a member of the ignore list as a literal
\* prefix of its file name or of the name of a directory above it.
C7_NoListedNameHasIgnoredPrefix ==
    res[1].wd.some =>
        \A q \in WalkedPaths : \A n \in NamesFromRoot(q) :
            ~PrefixIn(n, Walked.ignore_list)

\* C7: no listed entry has a file name that is valid UTF-8 and has a member of
\* the ignore list as a prefix, and none lies beneath a directory with such a
\* name; a name that is not valid UTF-8 is never ignored.
C7_NoListedUtf8NameHasIgnoredPrefix ==
    res[1].wd.some =>
        \A q \in WalkedPaths : \A n \in NamesFromRoot(q) :
            ToStr(n).some => ~PrefixIn(n, Walked.ignore_list)

\* t is ignored: tx and what is beneath it are pruned, s is listed.
C7_Witness ==
    /\ res[1].op = "walk" /\ Walked.ignore_list = {<<"t">>}
    /\ Cwd \o << <<"t", "x">>, <<"s">> >> \in DOMAIN fs
    /\ Append(Cwd, <<"t", "x">>) \notin WalkedPaths
    /\ Append(Cwd, <<"s">>) \in WalkedPaths

\* Not pruned: no name from the root down to q is ignored.
Kept(q) ==
    \A n \in NamesFromRoot(q) :
        ~(ToStr(n).some /\ PrefixIn(n, Walked.ignore_list))

\* Every directory of the walked tree can be read.
AllReadable ==
    \A q \in Subtree(fs, Cwd) : fs[q].kind = "dir" => fs[q].readable

\* Every directory and file of the tree that is not pruned is listed exactly
\* once, directories with their depth, and nothing else is listed.
WalkIsComplete ==
    /\ \A q \in Subtree(fs, Cwd) :
          /\ fs[q].kind = "dir" =>
                /\ Cardinality({i \in 1..Len(Walked.dirs) : Walked.dirs[i].path = q})
                      = IF Kept(q) THEN 1 ELSE 0
                /\ \A i \in 1..Len(Walked.dirs) :
                      Walked.dirs[i].path = q =>
                          Walked.dirs[i].depth = Len(q) - Len(Cwd)
          /\ fs[q].kind = "file" =>
                Count(Walked.files, q) = IF Kept(q) THEN 1 ELSE 0
    /\ \A i \in 1..Len(Walked.dirs) : IsDir(fs, Walked.dirs[i].path)
    /\ \A i \in 1..Len(Walked.files) : IsFile(fs, Walked.files[i])
    /\ Walked.ignore_list = {} =>
          {Walked.files[i] : i \in 1..Len(Walked.files)}
              = {q \in Subtree(fs, Cwd) : fs[q].kind = "file"}

C9_SizeIsSumOfListedFiles ==
    res[1].wd.some =>
        Walked.size =
            SumSeq([i \in 1..Len(Walked.files) |->
                        fs[Resolve(fs, Walked.files[i])].size])

\* Two files of one byte are listed and counted, a third one is pruned.
C9_Witness ==
    /\ res[1].op = "walk" /\ Walked.ignore_list = {<<"s">>}
    /\ Len(Walked.files) = 2 /\ Walked.size = 2
    /\ IsFile(fs, Append(Cwd, <<"s">>)) /\ fs[Append(Cwd, <<"s">>)].size = 1


---------------------------------------------------------------------------
(* Load on its own: the lifecycle of LoadSpace over a source tree.         *)

\* File names in the source trees of a load.
LoadNames == {<<"t">>, <<"s">>}

\* The entries of a source tree of a load: readable directories and files.
LoadKinds == {Dir(TRUE)} \cup {File(n) : n \in 0..MaxSize}

\* `bifrost load`, `bifrost load t` and `bifrost load t s`.
LoadArgs == {<<>>, << <<"t">> >>, << <<"t">>, <<"s">> >>}

InitLoad ==
    /\ \E tree \in Trees(Cwd, LoadNames, MaxNodes, LoadKinds) :
          fs = FsOf(HomeEntries \cup SetupEntries \cup {<<Cwd, Dir(TRUE)>>} \cup tree)
    /\ \E L \in {{}, {<<"t">>}} :
          cfg = [BaseConfig EXCEPT !.ignore = L, !.args = LoadArgs,
                                   !.kinds = {"load"}]
    /\ InitRest

NextLoad ==
    \E i \in Slots :
        \/ Construct(i)
        \/ PrepLoad(i)
        \/ BuildLoadSpace(i)
        \/ ExecLoad(i)

SpecLoad == InitLoad /\ [][NextLoad]_vars


\* The last call in slot 1 was an exec of a load that held a target.
Loaded == res[1].op = "exec" /\ res[1].before.some

\* The space as it was when that exec began.
Before == res[1].before.val

\* The WorkingDirs that exec was given.
Contents == IF Before.contents.some THEN Before.contents.val ELSE <<>>

\* The bytes the walks recorded.
WalkedBytes == SumSeq([i \in 1..Len(Contents) |-> Contents[i].size])

\* How often a call occurs in the history of a space.
Calls(s, op) == Cardinality({k \in 1..Len(s.hist) : s.hist[k] = op})

\* C5 as stated: a successful exec reports the walked bytes, and whenever the
\* copied bytes differ from the walked bytes exec returns IncompleteLoad.
C5_MismatchIsIncompleteLoad ==
    Loaded =>
        /\ res[1].status = "Ok" => res[1].bytes = Some(WalkedBytes)
        /\ res[1].copied /= WalkedBytes => res[1].status = "IncompleteLoad"

\* C5: a successful exec reports the walked bytes, which are the bytes
\* copied; whenever the copied bytes differ from the walked bytes exec
\* returns an error and never a success: IncompleteLoad when a copy failed,
\* the I/O error itself when a directory or file could not be created.
C5_MismatchIsNeverSuccess ==
    Loaded =>
        /\ res[1].status = "Ok" =>
              (res[1].bytes = Some(WalkedBytes) /\ res[1].copied = WalkedBytes)
        /\ res[1].copied /= WalkedBytes =>
              res[1].status \in {"IncompleteLoad", "IOFailure"}
        /\ res[1].status /= "Ok" => ~res[1].bytes.some

\* A copy failed after its file was created: the bytes fall short and exec
\* returned IncompleteLoad.
C5_Witness ==
    /\ Loaded /\ res[1].status = "IncompleteLoad"
    /\ res[1].copied < WalkedBytes
    /\ res[1].wrote /= {}

\* The root a logged directory was walked from.
RootOf(l) == SubSeq(l.src, 1, Len(l.src) - l.depth)

\* C6: in an exec on the directories as the walk produced them, the
\* directories of each walk are created in non-decreasing depth, the root
\* first, and the target of the parent of every directory below the root was
\* created earlier.
C6_ParentsBeforeChildren ==
    (Loaded /\ Calls(Before, "exec") = 0) =>
        LET log == res[1].log IN
        /\ \A j, k \in 1..Len(log) :
              (j < k /\ RootOf(log[j]) = RootOf(log[k])) =>
                  log[j].depth =< log[k].depth
        /\ \A k \in 1..Len(log) :
              log[k].depth > 0 =>
                  \E j \in 1..(k - 1) :
                      /\ log[j].src = Parent(log[k].src).val
                      /\ log[j].dst = Parent(log[k].dst).val

\* Three levels were created, two of the directories at the same depth.
C6_Witness ==
    /\ Loaded /\ Calls(Before, "exec") = 0 /\ res[1].status = "Ok"
    /\ \E k \in 1..Len(res[1].log) : res[1].log[k].depth = 2
    /\ \E j, k \in 1..Len(res[1].log) :
          j < k /\ res[1].log[j].depth = res[1].log[k].depth


\* Where the load puts the source path q of the WorkingDir wd.
DestOf(wd, q) == JoinPath(Before.target.val, StripPrefix(q, wd.parent.val).val)

\* The directories and the files the walks listed, as <<WorkingDir, path>>.
WalkedDirs ==
    UNION {{<<Contents[i], Contents[i].dirs[k].path>> :
                k \in 1..Len(Contents[i].dirs)} : i \in 1..Len(Contents)}
WalkedFiles ==
    UNION {{<<Contents[i], Contents[i].files[k]>> :
                k \in 1..Len(Contents[i].files)} : i \in 1..Len(Contents)}

\* C10: after the first exec of a load returned success, every walked
\* directory and file at <parent>/<rel> is a directory or file at
\* <target>/<rel>, every copied file has the size of its source, and the
\* target holds nothing else.
C10_TargetMirrorsSource ==
    (Loaded /\ res[1].status = "Ok" /\ Calls(Before, "exec") = 0) =>
        /\ \A d \in WalkedDirs : IsDir(fs, DestOf(d[1], d[2]))
        /\ \A x \in WalkedFiles :
              /\ IsFile(fs, DestOf(x[1], x[2]))
              /\ fs[DestOf(x[1], x[2])].size = fs[x[2]].size
        /\ Subtree(fs, Before.target.val) =
              {Before.target.val}
                  \cup {DestOf(d[1], d[2]) : d \in WalkedDirs}
                  \cup {DestOf(x[1], x[2]) : x \in WalkedFiles}

\* A load of p/{s, t/{s}} with two files of one byte: two directories were
\* created and two files written.
C10_Witness ==
    /\ Loaded /\ res[1].status = "Ok" /\ Calls(Before, "exec") = 0
    /\ Calls(Before, "build") = 1
    /\ Len(res[1].log) = 2 /\ Cardinality(res[1].wrote) = 2
    /\ WalkedBytes = 2



---------------------------------------------------------------------------
(* The subcommands: one invocation after another (ops/bifrost_*.rs).       *)

\* Largest number of invocations in a row.
MaxRuns == 3

\* What is kept of an invocation when the next one starts: what it was, the
\* last call it made and how that ended, and the disk it left.
RunOf(s, r, f) ==
    [kind |-> s.kind, name |-> s.name, target |-> s.target, op |-> r.op,
     status |-> r.status, fs |-> f]

\* The invocation in slot i is over: its process has ended, a call has
\* returned an error, or exec has returned.
Over(i) ==
    sp[i].status /= "live" \/ res[i].status /= "Ok" \/ res[i].op = "exec"

\* A subcommand starts: WorkSpace::to_*_space(config, &args), after the
\* invocation before it is over.
OpsStart(i) ==
    /\ i \in cfg.procs
    /\ Len(eff.runs) + 1 < MaxRuns \/ sp[i].kind = "none"
    /\ sp[i].kind /= "none" => Over(i)
    /\ \E kind \in cfg.kinds, args \in cfg.args, opts \in {"none", "verbose"} :
          /\ kind /= "load" => args = <<>>
          /\ kind /= "show" => opts = "none"
          /\ sp' = [sp EXCEPT ![i] = NewSpace(fs, cfg, kind, args, opts)]
          /\ res' = [res EXCEPT ![i] =
                [Outcome("construct", NewSpace(fs, cfg, kind, args, opts).status)
                    EXCEPT !.name = Some(args)]]
    /\ eff' = [eff EXCEPT !.runs =
                  IF sp[i].kind = "none" THEN @
                  ELSE Append(@, RunOf(sp[i], res[i], fs))]
    /\ UNCHANGED <<fs, cfg>>

\* The calls a load makes on its LoadSpace.  The subcommand that drives them
\* is not among the sources, so any order of calls is taken.
OpsLoad(i) ==
    \/ PrepLoad(i)
    \/ BuildLoadSpace(i)
    \/ ExecLoad(i)

\* show, unload, run: let ws = ws.prep()?;
OpsPrep(i) ==
    /\ sp[i].hist = <<>>
    /\ \/ PrepExisting(i)
       \/ PrepRun(i)

\* A subcommand that goes on to build whatever the target path holds.
OpsProbePasses(i) ==
    /\ Live(i) /\ sp[i].kind \in {"show", "unload", "run"}
    /\ sp[i].hist = <<"prep">> /\ res[i].op = "prep" /\ res[i].status = "Ok"
    /\ res' = [res EXCEPT ![i] =
           [Outcome("probe", "Ok") EXCEPT !.path = sp[i].target]]
    /\ UNCHANGED <<fs, cfg, sp, eff>>

\* show, unload, run: fs::metadata(&get_path_or_empty(ws.target())).is_err()
\* ends the process with status 1.
OpsProbe(i) ==
    /\ Live(i) /\ sp[i].kind \in {"show", "unload", "run"}
    /\ sp[i].hist = <<"prep">> /\ res[i].op = "prep" /\ res[i].status = "Ok"
    /\ LET found == MetadataOk(fs, GetPathOrEmpty(sp[i].target)) IN
       /\ sp' = [sp EXCEPT ![i].status = IF found THEN "live" ELSE "exited"]
       /\ res' = [res EXCEPT ![i] =
              [Outcome("probe", IF found THEN "Ok" ELSE "NotFound")
                  EXCEPT !.path = sp[i].target]]
    /\ UNCHANGED <<fs, cfg, eff>>

\* show, unload, run: ws.build()?
OpsBuild(i) ==
    /\ sp[i].hist = <<"prep">> /\ res[i].op = "probe" /\ res[i].status = "Ok"
    /\ BuildOther(i)

\* show, unload, run: .exec()?
OpsExec(i) ==
    /\ sp[i].hist = <<"prep", "build">> /\ res[i].op = "build"
    /\ res[i].status = "Ok"
    /\ \/ ExecShow(i)
       \/ ExecUnload(i)
       \/ ExecRun(i)

NextOps ==
    \E i \in Slots :
        \/ OpsStart(i)
        \/ OpsLoad(i)
        \/ OpsPrep(i)
        \/ OpsProbe(i)
        \/ OpsBuild(i)
        \/ OpsExec(i)

\* The container is set up; a realm p or tmp may be there from before.  The
\* manifest names the realm p (by leaving the name out), tmp or nothing.  A
\* load is given no contents, or x, which is not in the current directory.
InitOps ==
    /\ \E realms \in {{}, {<<"p">>}, {TMP}} :
          fs = FsOf(HomeEntries \cup ProjectEntries \cup SetupEntries
                      \cup UNION {RealmEntries(n) : n \in realms})
    /\ \E n \in {None, Some(TMP), Some(<<>>)} :
          cfg = [BaseConfig EXCEPT !.manifest_name = n,
                                   !.args = {<<>>, << <<"x">> >>}]
    /\ InitRest

SpecOps == InitOps /\ [][NextOps]_vars


\* The invocation before the one now in slot 1.
LastRun == eff.runs[Len(eff.runs)]

\* Slot 1 runs a load, and the invocation before it was a load of the same
\* realm name whose exec returned success.
SecondLoad ==
    /\ sp[1].kind = "load" /\ eff.runs /= <<>>
    /\ LastRun.kind = "load" /\ LastRun.name = sp[1].name
    /\ LastRun.op = "exec" /\ LastRun.status = "Ok"

\* C11: in a load that follows a successful load of the same realm name,
\* prep ends with AlreadyExists and the process exits, no target is ever
\* held, an exec can only panic for want of one, and the disk stays as the
\* first load left it.
C11_SecondLoadAlreadyExists ==
    SecondLoad =>
        /\ fs = LastRun.fs
        /\ ~sp[1].target.some
        /\ res[1].op = "prep" =>
              (res[1].status = "AlreadyExists" /\ sp[1].status = "exited")
        /\ res[1].op = "exec" => res[1].status = "Panic"

\* The second load has called prep and was turned away.
C11_Witness ==
    /\ SecondLoad /\ res[1].op = "prep" /\ res[1].status = "AlreadyExists"
    /\ IsFile(fs, Append(LastRun.target.val, <<"p">>) \o << <<"a">> >>)


\* Slot 1 runs an unload of a realm name with nothing at its candidate path.
UnloadOfMissing ==
    /\ sp[1].kind = "unload" /\ sp[1].name.some
    /\ ~MetadataOk(fs, CandidatePath(Home, sp[1].name))

\* C12 as stated: the prep of an unload of a realm that was never loaded
\* fails with NotFound.
C12_PrepFailsWithNotFound ==
    (UnloadOfMissing /\ res[1].op = "prep") => res[1].status = "NotFound"

\* C12: in an unload of a realm that was never loaded, prep returns success
\* with the empty path as target; the subcommand then finds no metadata for
\* that path and exits, so build and exec are never reached and the disk is
\* left as it was.
C12_UnloadOfMissingExitsAtProbe ==
    [][UnloadOfMissing =>
          /\ fs' = fs /\ eff'.deleted = eff.deleted
          /\ res'[1].op \in {"construct", "prep", "probe"}
          /\ res'[1].op = "prep" =>
                (res'[1].status = "Ok" /\ sp'[1].target = Some(<<>>))
          /\ res'[1].op = "probe" =>
                (res'[1].status = "NotFound" /\ sp'[1].status = "exited")]_vars

\* The unload of a missing realm has been stopped after its prep.
C12_Witness ==
    /\ UnloadOfMissing /\ res[1].op = "probe" /\ res[1].status = "NotFound"
    /\ sp[1].hist = <<"prep">> /\ sp[1].status = "exited"


---------------------------------------------------------------------------
(* The order of prep, build and exec on one space (BifrostOperable).       *)

Lifecycle == <<"prep", "build", "exec">>

\* The calls made on slot i so far are not the lifecycle from its start:
\* a step came early, was left out, or was made again.
OutOfOrder(i) ==
    /\ sp[i].hist /= <<>>
    /\ \E k \in 1..Len(sp[i].hist) : sp[i].hist[k] /= Lifecycle[k]

\* The last call on slot i, and the calls before it.
LastCall(i) == sp[i].hist[Len(sp[i].hist)]
Earlier(i) == {sp[i].hist[k] : k \in 1..(Len(sp[i].hist) - 1)}

\* C13 as stated: every call made out of order ends in a panic.
C13_OutOfOrderPanics ==
    \A i \in Slots :
        (OutOfOrder(i) /\ res[i].op = LastCall(i)) => res[i].status = "Panic"

\* C13, amended: of the calls made out of order, one panics, the exec of a
\* LoadSpace that has no target yet (no prep came before it, or prep
\* returned an error).  A prep of a LoadSpace that has its target returns
\* an error, an exec of an UnloadSpace without a target or without a
\* directory at it leaves the process with status 1, and every other early
\* or repeated call returns a result; build returns Ok wherever it comes.
C13_OnlyLoadExecWithoutPrepPanics ==
    \A i \in Slots :
        (sp[i].hist /= <<>> /\ res[i].op = LastCall(i)) =>
            /\ res[i].status = "Panic" <=>
                    /\ sp[i].kind = "load" /\ res[i].op = "exec"
                    /\ ~sp[i].target.some
            /\ res[i].status = "AlreadyPrepared" <=>
                    /\ sp[i].kind = "load" /\ res[i].op = "prep"
                    /\ "prep" \in Earlier(i) /\ sp[i].target.some
            /\ res[i].status = "Exit" =>
                    /\ sp[i].kind = "unload" /\ res[i].op = "exec"
                    /\ ~sp[i].target.some \/ ~IsDir(fs, sp[i].target.val)
            /\ res[i].op = "build" => res[i].status = "Ok"

\* A LoadSpace built twice without a prep, both builds returning, and then
\* executed: the exec panics.
C13_Witness ==
    /\ sp[1].kind = "load" /\ sp[1].hist = <<"build", "build", "exec">>
    /\ res[1].op = "exec" /\ res[1].status = "Panic"
    /\ sp[1].status = "panicked"


\* The step is a call of op on the space in slot i.
CallOf(i, op) ==
    /\ sp'[i].kind = sp[i].kind
    /\ sp'[i].hist = Append(sp[i].hist, op)

\* C14: once prep has set the target of a LoadSpace, every later prep on
\* that LoadSpace returns an error and leaves the target, and the disk, as
\* they were.
C14_SecondPrepFails ==
    [][\A i \in Slots :
        (sp[i].kind = "load" /\ sp[i].target.some /\ CallOf(i, "prep")) =>
            /\ res'[i].op = "prep" /\ res'[i].status = "AlreadyPrepared"
            /\ sp'[i].target = sp[i].target
            /\ sp'[i].status = "live"
            /\ fs' = fs]_vars

\* A LoadSpace prepared twice in a row: the second prep returned the error
\* and the target of the first is still there.
C14_Witness ==
    /\ sp[1].kind = "load" /\ sp[1].hist = <<"prep", "prep">>
    /\ res[1].op = "prep" /\ res[1].status = "AlreadyPrepared"
    /\ sp[1].target.some
    /\ sp[1].target.val = CandidatePath(Home, sp[1].name)


\* What a step did outside the process: entries written or deleted, a
\* directory listed by ls, a command spawned.
Effects(e) == <<e.written, e.deleted, e.listed, e.spawned>>

\* C15: a prep or a build of any space leaves the disk as it was and writes,
\* deletes, lists and spawns nothing; a step that changes the disk or has
\* one of these effects is an exec.
C15_PrepAndBuildLeaveDisk ==
    [][/\ \A i \in Slots :
            (CallOf(i, "prep") \/ CallOf(i, "build")) =>
                fs' = fs /\ Effects(eff') = Effects(eff)
       /\ (fs' /= fs \/ Effects(eff') /= Effects(eff)) =>
                \E i \in Slots : CallOf(i, "exec")]_vars

\* A LoadSpace after prep found its target free and build walked the
\* project: the two files are counted, and the target is still missing.
C15_Witness ==
    /\ sp[1].kind = "load" /\ sp[1].hist = <<"prep", "build">>
    /\ res[1].op = "build" /\ res[1].status = "Ok"
    /\ sp[1].target.some /\ sp[1].size = 2
    /\ ~MetadataOk(fs, sp[1].target.val)
    /\ Effects(eff) = Effects(NoEffect)


ValidationErrors == {"InvalidName", "AlreadyExists", "NotFound"}

\* C16 as stated: a validation error is the result of a prep.
C16_DetectedDuringPrep ==
    \A i \in Slots :
        res[i].status \in ValidationErrors => res[i].op = "prep"

\* The LoadSpace in slot i was refused its name: prep was called and
\* returned, and there is no target.
NameRefused(i) ==
    /\ sp[i].kind = "load" /\ sp[i].status = "live"
    /\ "prep" \in {sp[i].hist[k] : k \in 1..Len(sp[i].hist)}
    /\ ~sp[i].target.some

\* C16, amended: prep detects InvalidName and AlreadyExists, and only for a
\* load; NotFound is never the result of a prep, it is found by the show,
\* unload or run subcommand when it looks for the prepared path, after prep
\* returned Ok.  AlreadyExists and NotFound end the process, so no call
\* follows; after InvalidName the LoadSpace has no target, and a call on it
\* copies nothing (its exec panics).  A build or an exec of show, unload or
\* run is made only while the prepared path exists.
C16_ValidationStopsTheOperation ==
    [][\A i \in Slots :
        /\ res'[i].op = "prep" =>
              /\ res'[i].status /= "NotFound"
              /\ res'[i].status \in ValidationErrors => sp'[i].kind = "load"
        /\ res'[i].status = "NotFound" =>
              /\ res'[i].op = "probe" /\ sp'[i].hist = <<"prep">>
              /\ sp'[i].kind \in {"show", "unload", "run"}
        /\ res'[i].status \in {"AlreadyExists", "NotFound"} =>
              sp'[i].status = "exited"
        /\ res[i].status \in {"AlreadyExists", "NotFound"} =>
              \A op \in {"prep", "build", "exec"} : ~CallOf(i, op)
        /\ (NameRefused(i) /\ \E op \in {"prep", "build", "exec"} : CallOf(i, op)) =>
              /\ fs' = fs /\ Effects(eff') = Effects(eff)
              /\ ~sp'[i].target.some
              /\ CallOf(i, "prep") => res'[i].status = "InvalidName"
              /\ CallOf(i, "exec") => res'[i].status = "Panic"
        /\ (sp[i].kind \in {"show", "unload", "run"}
              /\ (CallOf(i, "build") \/ CallOf(i, "exec"))) =>
              MetadataOk(fs, GetPathOrEmpty(sp[i].target))]_vars

\* run for a realm that was never loaded: prep returned Ok, the subcommand
\* found nothing at the path and left, and nothing was spawned.
C16_Witness ==
    /\ sp[1].kind = "run" /\ sp[1].hist = <<"prep">>
    /\ sp[1].status = "exited" /\ sp[1].target = Some(<<>>)
    /\ res[1].op = "probe" /\ res[1].status = "NotFound"
    /\ eff.spawned = {}


\* A load under a blacklisted name: prep returned InvalidName, and the exec
\* that followed panicked without a copy.
C16_NameRefusedThenExec ==
    /\ NameRefused(1) \/ sp[1].status = "panicked"
    /\ sp[1].kind = "load" /\ sp[1].hist = <<"prep", "exec">>
    /\ res[1].op = "exec" /\ res[1].status = "Panic"
    /\ eff.written = {}


---------------------------------------------------------------------------
(* Loads whose source root holds the container: `bifrost load` and         *)
(* `bifrost load .bifrost` in the home directory, beside loads in the      *)
(* project directory.                                                      *)

InitLoadFromHome ==
    /\ fs = FsOf(HomeEntries \cup ProjectEntries \cup SetupEntries)
    /\ \E cwd \in {Home, Cwd} :
          cfg = [BaseConfig EXCEPT !.cwd = cwd, !.kinds = {"load"},
                                   !.args = {<<>>, <<DOT_BIFROST>>}]
    /\ InitRest

SpecLoadFromHome == InitLoadFromHome /\ [][NextLoad]_vars

\* The entries a step created, or changed in place.
Touched == (DOMAIN fs' \ DOMAIN fs)
           \cup {q \in DOMAIN fs \cap DOMAIN fs' : fs'[q] /= fs[q]}

\* The entries at or below the roots of the WorkingDirs of a space, before
\* or after the step.
SourceTree(s) ==
    {q \in DOMAIN fs \cup DOMAIN fs' :
        \E k \in 1..Len(s.contents.val) :
            IsPrefix(Resolve(fs, s.contents.val[k].root), q)}

\* The step is an exec of a LoadSpace that holds a target.
LoadStep(i) ==
    /\ sp[i].kind = "load" /\ sp[i].target.some /\ sp[i].contents.some
    /\ CallOf(i, "exec")

\* C17: whatever an exec of a LoadSpace creates or writes lies at or under
\* the target path, and every entry of the source tree is after the load
\* what it was before, with no entry added to the tree.
C17_LoadLeavesSourceTree ==
    [][\A i \in Slots : LoadStep(i) =>
        /\ \A q \in Touched : IsPrefix(sp[i].target.val, q)
        /\ SourceTree(sp[i]) \cap Touched = {}]_vars

\* The part of C17 that the code keeps: what is created or written lies at
\* or under the target path, and an entry that was there before the load is
\* not changed by it.
C17_LoadWritesUnderTarget ==
    [][\A i \in Slots : LoadStep(i) =>
        /\ \A q \in Touched : IsPrefix(sp[i].target.val, q)
        /\ DOMAIN fs \subseteq DOMAIN fs'
        /\ \A q \in DOMAIN fs : fs'[q] = fs[q]]_vars

\* `bifrost load` in the home directory has returned Ok: the container root
\* was walked as part of the source, and the realm lies inside the tree it
\* was loaded from, with a copy of the container's Dockerfile in it.
C17_SourceTreeGrew ==
    /\ cfg.cwd = Home /\ Loaded /\ res[1].status = "Ok"
    /\ Before.contents.val[1].root = Home
    /\ IsPrefix(Home, Before.target.val)
    /\ \E q \in res[1].wrote :
          /\ IsPrefix(Before.target.val \o ContainerPath(<< <<"h">> >>), q)
          /\ IsFile(fs, q)


---------------------------------------------------------------------------
(* The walker over a tree that loses entries while it is walked.           *)

\* Largest number of entries of one walk on which a call fails.
MaxLost == 1

\* The ways the calls on the entries below c can fail during one walk.
StatFaults(f, c) ==
    {at \in [Subtree(f, c) -> 1..(StatCalls + 1)] :
        Cardinality({q \in Subtree(f, c) : at[q] =< StatCalls}) =< MaxLost}

InitWalkStat ==
    /\ \E tree \in Trees(Cwd, LoadNames, MaxNodes, LoadKinds) :
          fs = FsOf(HomeEntries \cup {<<Cwd, Dir(TRUE)>>} \cup tree)
    /\ cfg = BaseConfig
    /\ InitRest

\* WorkingDir::new(cwd).ignore(list).walk() while entries are lost.
ApplyWalkStat ==
    /\ res[1].op = "none"
    /\ \E L \in {{}, {<<"s">>}}, at \in StatFaults(fs, Cwd) :
          LET r == WalkStat(fs, NewWorkingDir(cfg.cwd, L), at) IN
          res' = [res EXCEPT ![1] =
              [Outcome("walk", r.status) EXCEPT
                  !.wd = Some(r.wd), !.stat = Some(at)]]
    /\ UNCHANGED <<fs, cfg, sp, eff>>

NextWalkStat == ApplyWalkStat

SpecWalkStat == InitWalkStat /\ [][NextWalkStat]_vars

\* The first call that failed on q during the last walk.
FailedAt(q) == res[1].stat.val[q]

\* C18: a walk returns whatever calls fail on its entries.
C18_StatFailureNeverFatal ==
    res[1].op = "walk" => res[1].status = "Ok"

\* What the code keeps of C18: when no fs::metadata call fails, the walk
\* returns; an entry on which is_dir or is_file failed is in neither list
\* and not in size, and every other entry that is not pruned is listed.
C18_EarlyStatFailureSkipped ==
    (res[1].op = "walk"
        /\ \A q \in Subtree(fs, Cwd) :
              fs[q].kind = "file" => FailedAt(q) /= StatCalls) =>
        /\ res[1].status = "Ok"
        /\ \A q \in Subtree(fs, Cwd) :
              /\ fs[q].kind = "file" =>
                    Count(Walked.files, q) =
                        IF Kept(q) /\ FailedAt(q) > StatCalls THEN 1 ELSE 0
              /\ fs[q].kind = "dir" =>
                    Cardinality({i \in 1..Len(Walked.dirs) : Walked.dirs[i].path = q})
                        = IF Kept(q) /\ FailedAt(q) > 1 THEN 1 ELSE 0
        /\ Walked.size =
              SumSeq([i \in 1..Len(Walked.files) |->
                          fs[Resolve(fs, Walked.files[i])].size])

\* With no failing call the walk is the walk of the tree at rest.
C18_WalkStatIsWalk ==
    (res[1].op = "walk"
        /\ \A q \in Subtree(fs, Cwd) : FailedAt(q) > StatCalls) =>
        /\ res[1].status = "Ok"
        /\ Walked = Walk(fs, NewWorkingDir(cfg.cwd, Walked.ignore_list))

\* A file that was a file for is_file and gone for fs::metadata, with a
\* second file in the tree: the walk panicked and returned nothing.
C18_WalkPanicked ==
    /\ res[1].op = "walk" /\ res[1].status = "Panic"
    /\ \E q \in Subtree(fs, Cwd) :
          /\ fs[q].kind = "file" /\ FailedAt(q) = StatCalls
          /\ \E r \in Subtree(fs, Cwd) : r /= q /\ fs[r].kind = "file"


---------------------------------------------------------------------------
(* A load whose root is a file.                                            *)

\* The WorkingDir is the walk of a bare file: no directory, and the root as
\* the only file.
BareFile(wd) == wd.dirs = <<>> /\ wd.files = <<wd.root>>

\* The first exec of a load of one bare file, walked once, has ended.
BareFileLoaded ==
    /\ Loaded /\ Calls(Before, "exec") = 0 /\ Calls(Before, "build") = 1
    /\ Len(Contents) = 1 /\ BareFile(Contents[1])

\* C19: the load of a single bare file, when no call fails for outside
\* reasons, returns Ok: the target root is the one directory it created,
\* the one file it wrote is <target>/<file name>, with the size of the
\* source, and that size is the number of bytes reported.
C19_BareFileLoad ==
    (BareFileLoaded /\ res[1].faults = 0) =>
        LET src == Contents[1].root
            dst == Append(Before.target.val, FileName(src))
        IN /\ res[1].status = "Ok"
           /\ res[1].made = {Before.target.val}
           /\ IsDir(fs, Before.target.val)
           /\ res[1].wrote = {dst}
           /\ IsFile(fs, dst) /\ fs[dst].size = fs[src].size
           /\ res[1].bytes = Some(fs[src].size)
           /\ Subtree(fs, Before.target.val) = {Before.target.val, dst}

\* `bifrost load t` with t a file of one byte: p/t is at <target>/t and one
\* byte is reported.
C19_Witness ==
    /\ BareFileLoaded /\ res[1].faults = 0 /\ res[1].status = "Ok"
    /\ Contents[1].root = Append(Cwd, <<"t">>)
    /\ fs[Append(Cwd, <<"t">>)] = File(1)
    /\ res[1].bytes = Some(1)
    /\ IsFile(fs, Append(Before.target.val, <<"t">>))


---------------------------------------------------------------------------
(* load, unload, and what follows.                                         *)

\* The first invocation was a load that returned Ok, the second an unload
\* of the realm it made that returned Ok, and a third is in slot 1.
LoadThenUnload ==
    /\ Len(eff.runs) = 2
    /\ eff.runs[1].kind = "load" /\ eff.runs[1].op = "exec"
    /\ eff.runs[1].status = "Ok"
    /\ eff.runs[2].kind = "unload" /\ eff.runs[2].op = "exec"
    /\ eff.runs[2].status = "Ok"
    /\ eff.runs[2].target = eff.runs[1].target

\* The disks an invocation sequence starts from.
OpsDisks ==
    {FsOf(HomeEntries \cup ProjectEntries \cup SetupEntries
            \cup UNION {RealmEntries(n) : n \in realms})
     : realms \in {{}, {<<"p">>}, {TMP}}}

\* C20 as stated, for what follows: show, unload or run after the unload
\* fails at prep.
C20_FollowingOpFailsAtPrep ==
    (LoadThenUnload /\ sp[1].kind \in {"show", "unload", "run"}
        /\ res[1].op = "prep") => res[1].status = "NotFound"

\* C20, amended: after load and then unload of a realm, both returning Ok,
\* nothing is at the target path and the disk is what it was before the
\* load.  The first prep of a load that follows passes, with that target
\* again.  A show, unload or run that follows passes prep too, with the
\* empty path as its target; the subcommand then finds nothing at that path
\* and leaves with status 1 before build and exec.
C20_UnloadUndoesLoad ==
    LoadThenUnload =>
        /\ ~MetadataOk(eff.runs[2].fs, eff.runs[1].target.val)
        /\ eff.runs[2].fs \in OpsDisks
        /\ eff.runs[2].fs =
              Without(eff.runs[1].fs,
                      Subtree(eff.runs[1].fs, eff.runs[1].target.val))
        /\ (sp[1].kind = "load" /\ res[1].op = "prep"
                /\ Calls(sp[1], "prep") = 1) =>
              /\ res[1].status = "Ok"
              /\ sp[1].target = eff.runs[1].target
        /\ sp[1].kind \in {"show", "unload", "run"} =>
              /\ res[1].op \in {"construct", "prep", "probe"}
              /\ fs = eff.runs[2].fs
              /\ res[1].op = "prep" =>
                    res[1].status = "Ok" /\ sp[1].target = Some(<<>>)
              /\ res[1].op = "probe" =>
                    res[1].status = "NotFound" /\ sp[1].status = "exited"

\* load, unload, and then show: prep returned, the subcommand found no
\* realm and left.
C20_Witness ==
    /\ LoadThenUnload /\ sp[1].kind = "show"
    /\ res[1].op = "probe" /\ res[1].status = "NotFound"
    /\ sp[1].status = "exited"
    /\ IsDir(eff.runs[1].fs, eff.runs[1].target.val)

\* load, unload, and then load again: prep passed with the same target.
C20_LoadAgain ==
    /\ LoadThenUnload /\ sp[1].kind = "load"
    /\ res[1].op = "prep" /\ res[1].status = "Ok"
    /\ sp[1].target = eff.runs[1].target


---------------------------------------------------------------------------
(* How an invocation ends.                                                 *)

\* The invocation in slot i returned a summary: its exec returned Ok.
Summary(i) == res[i].op = "exec" /\ res[i].status = "Ok"

\* The process of slot i is over with a status other than 0: it left through
\* process::exit(1) or it panicked.
NonZeroExit(i) == sp[i].status \in {"exited", "panicked"}

\* The part of C21 the code keeps: a target that exists on load, a target
\* that is missing on show, unload and run, and contents of which none is
\* loadable leave through process::exit(1), and a load under a name of the
\* black_list never returns a summary.
C21_OtherFailuresExit ==
    \A i \in Slots :
        /\ res[i].status \in {"AlreadyExists", "NotFound"} =>
              sp[i].status = "exited" /\ ~Summary(i)
        /\ (sp[i].kind = "load" /\ ~sp[i].contents.some) =>
              sp[i].status \in {"exited", "panicked"} /\ res[i].op = "construct"
        /\ (sp[i].kind = "load" /\ sp[i].name.some
                /\ sp[i].name.val \in BlackList) => ~Summary(i)

\* C21: no invocation under a name of the black_list returns a summary, and
\* the other unrecoverable failures leave with a status other than 0.
C21_FailuresNeverEndInSummary ==
    /\ C21_OtherFailuresExit
    /\ \A i \in Slots :
          (sp[i].name.some /\ sp[i].name.val \in BlackList) => ~Summary(i)

\* `bifrost show` under the name tmp, with a directory tmp in the container:
\* the listing was made and the summary returned.
C21_BlacklistedShowSucceeded ==
    /\ sp[1].kind = "show" /\ sp[1].name = Some(TMP)
    /\ sp[1].hist = <<"prep", "build", "exec">>
    /\ Summary(1) /\ res[1].text.some
    /\ Append(ContainerPath(Home), TMP) \in eff.listed

\* `bifrost load x` with no x in the current directory: the process left
\* from to_load_space.
C21_NoLoadableContents ==
    /\ sp[1].kind = "load" /\ ~sp[1].contents.some
    /\ sp[1].status = "exited" /\ res[1].op = "construct"


---------------------------------------------------------------------------
(* Two load invocations at once, each a process of its own, on one disk.   *)

InitLoadTwice ==
    /\ fs = FsOf(HomeEntries \cup ProjectEntries \cup SetupEntries)
    /\ cfg = [BaseConfig EXCEPT !.procs = Slots, !.kinds = {"load"}]
    /\ InitRest

SpecLoadTwice == InitLoadTwice /\ [][NextLoad]_vars

\* C22: nothing but the disk decides a prep of a LoadSpace.  While the
\* candidate path is not on disk, the first prep of a load under an allowed
\* name returns Ok with that path, whatever the other invocation holds; and
\* the exec of a LoadSpace with a target is not kept from writing by the
\* target being on disk already: it never returns AlreadyExists, and when
\* it returns Ok it has written every walked file under the target.
C22_LoadsNotExcluded ==
    [][\A i \in Slots :
        /\ (sp[i].kind = "load" /\ ~sp[i].target.some /\ CallOf(i, "prep")
               /\ CheckName(sp[i].name)
               /\ ~MetadataOk(fs, CandidatePath(cfg.home, sp[i].name))) =>
              /\ res'[i].status = "Ok"
              /\ sp'[i].target = Some(CandidatePath(cfg.home, sp[i].name))
        /\ LoadStep(i) =>
              /\ res'[i].status /= "AlreadyExists"
              /\ (MetadataOk(fs, sp[i].target.val) /\ res'[i].status = "Ok") =>
                    /\ Cardinality(res'[i].wrote) =
                          Cardinality({sp[i].contents.val[1].files[k] :
                              k \in 1..Len(sp[i].contents.val[1].files)})
                    /\ \A q \in res'[i].wrote : IsPrefix(sp[i].target.val, q)]_vars

\* Both invocations passed prep with the same target before either wrote,
\* both were built and executed, both wrote the same files under the target
\* and both returned Ok.
C22_Witness ==
    /\ \A i \in Slots :
          /\ sp[i].kind = "load" /\ sp[i].hist = <<"prep", "build", "exec">>
          /\ res[i].op = "exec" /\ res[i].status = "Ok"
          /\ res[i].bytes = Some(2)
    /\ sp[1].target = sp[2].target
    /\ res[1].wrote = res[2].wrote /\ res[1].wrote /= {}
    /\ res[1].made /= {} /\ res[2].made = {}


---------------------------------------------------------------------------
(* One tree walked twice.                                                  *)

InitWalkTwice ==
    /\ \E tree \in Trees(Cwd, LoadNames, MaxNodes, AllKinds) :
          fs = FsOf(HomeEntries \cup {<<Cwd, Dir(TRUE)>>} \cup tree)
    /\ cfg = BaseConfig
    /\ InitRest

\* The first walk: WorkingDir::new(cwd).ignore(list).walk()
ApplyWalkFirst ==
    /\ res[1].op = "none"
    /\ \E L \in {{}, {<<"s">>}}, o \in ListingOrders :
          res' = [res EXCEPT ![1] =
              [Outcome("walk", "Ok") EXCEPT
                  !.wd = Some(WalkIn(fs, NewWorkingDir(cfg.cwd, L), o))]]
    /\ UNCHANGED <<fs, cfg, sp, eff>>

\* The second walk, of a new WorkingDir with the same root and list.
ApplyWalkFresh ==
    /\ res[1].op = "walk" /\ res[2].op = "none"
    /\ \E o \in ListingOrders :
          res' = [res EXCEPT ![2] =
              [Outcome("walk", "Ok") EXCEPT
                  !.wd = Some(WalkIn(fs, NewWorkingDir(cfg.cwd,
                                        res[1].wd.val.ignore_list), o))]]
    /\ UNCHANGED <<fs, cfg, sp, eff>>

\* The second walk, of the WorkingDir the first walk returned.
ApplyWalkSame ==
    /\ res[1].op = "walk" /\ res[2].op = "none"
    /\ \E o \in ListingOrders :
          res' = [res EXCEPT ![2] =
              [Outcome("walk again", "Ok") EXCEPT
                  !.wd = Some(WalkIn(fs, res[1].wd.val, o))]]
    /\ UNCHANGED <<fs, cfg, sp, eff>>

NextWalkTwice == ApplyWalkFirst \/ ApplyWalkFresh \/ ApplyWalkSame

SpecWalkTwice == InitWalkTwice /\ [][NextWalkTwice]_vars

\* The files and the <<directory, depth>> pairs a WorkingDir lists, as sets.
FileSet(wd) == {wd.files[i] : i \in 1..Len(wd.files)}
DirSet(wd) == {<<wd.dirs[i].path, wd.dirs[i].depth>> : i \in 1..Len(wd.dirs)}

\* C23: two walks of the same unchanged tree with the same ignore list, in
\* whatever order the directories are listed, yield the same set of files,
\* the same set of <<directory, depth>> pairs and the same size.  (A walk of
\* the WorkingDir an earlier walk returned yields these sets as well, but
\* adds to what is there: every file is listed once more and size is twice
\* the size of one walk.)
C23_WalkTwiceSame ==
    LET a == res[1].wd.val
        b == res[2].wd.val
    IN /\ res[2].op \in {"walk", "walk again"} =>
              FileSet(a) = FileSet(b) /\ DirSet(a) = DirSet(b)
       /\ res[2].op = "walk" =>
              /\ a.size = b.size
              /\ \A q \in FileSet(a) : Count(a.files, q) = Count(b.files, q)
       /\ res[2].op = "walk again" =>
              /\ b.size = 2 * a.size
              /\ \A q \in FileSet(a) : Count(b.files, q) = 2 * Count(a.files, q)

\* Two walks of p/{s, t/{s}} with two files of one byte, the directories
\* listed forth in one and back in the other: the file lists differ as
\* sequences and agree as sets, and both sizes are 2.
C23_Witness ==
    /\ res[1].op = "walk" /\ res[2].op = "walk"
    /\ res[1].wd.val.files /= res[2].wd.val.files
    /\ FileSet(res[1].wd.val) = FileSet(res[2].wd.val)
    /\ Cardinality(FileSet(res[1].wd.val)) = 2
    /\ res[1].wd.val.size = 2 /\ res[2].wd.val.size = 2
    /\ \E i \in 1..Len(res[1].wd.val.dirs) : res[1].wd.val.dirs[i].depth = 1


---------------------------------------------------------------------------
(* The build of a LoadSpace.                                               *)

\* The files of a WorkingDir are on disk under its root, each listed once.
WalkedOnce(wd) ==
    /\ \A k \in 1..Len(wd.files) :
          /\ IsFile(fs, wd.files[k]) /\ IsPrefix(wd.root, wd.files[k])
          /\ Count(wd.files, wd.files[k]) = 1
    /\ \A k \in 1..Len(wd.dirs) :
          /\ IsDir(fs, wd.dirs[k].path) /\ IsPrefix(wd.root, wd.dirs[k].path)
          /\ Cardinality({j \in 1..Len(wd.dirs) :
                            wd.dirs[j].path = wd.dirs[k].path}) = 1
    /\ wd.size = SumSeq([k \in 1..Len(wd.files) |->
                            fs[Resolve(fs, wd.files[k])].size])
    /\ (IsFile(fs, wd.root) /\ ~Ignorable(FileName(wd.root), wd.ignore_list)) =>
            wd.files = <<wd.root>>
    /\ (IsDir(fs, wd.root) /\ ~Ignorable(FileName(wd.root), wd.ignore_list)) =>
            wd.dirs /= <<>> /\ wd.dirs[1].path = wd.root

\* C24: every build of a LoadSpace returns Ok (walk has no error to return,
\* so no build fails), and after the first build the contents hold every
\* WorkingDir that was there before, in the reverse order, each walked
\* once, and size is the sum of their sizes.
C24_BuildWalksEveryWorkingDir ==
    [][\A i \in Slots :
        (sp[i].kind = "load" /\ sp[i].contents.some /\ CallOf(i, "build")) =>
            LET old == sp[i].contents.val
                new == sp'[i].contents.val
            IN /\ res'[i].op = "build" /\ res'[i].status = "Ok"
               /\ sp'[i].contents.some /\ Len(new) = Len(old)
               /\ \A k \in 1..Len(old) :
                     /\ new[k].root = old[Len(old) + 1 - k].root
                     /\ new[k].parent = old[Len(old) + 1 - k].parent
                     /\ new[k].ignore_list = old[Len(old) + 1 - k].ignore_list
               /\ sp'[i].size = SumSeq([k \in 1..Len(new) |-> new[k].size])
               /\ Calls(sp[i], "build") = 0 =>
                     \A k \in 1..Len(new) : WalkedOnce(new[k])]_vars

\* `bifrost load t s` built once: the contents were s, t in the order of
\* the directory listing; they are t, s after the build, with one byte each,
\* and size is 2.
C24_Witness ==
    /\ sp[1].kind = "load" /\ Calls(sp[1], "build") = 1
    /\ res[1].op = "build" /\ res[1].status = "Ok"
    /\ Len(sp[1].contents.val) = 2
    /\ sp[1].contents.val[1].root = Append(Cwd, <<"t">>)
    /\ sp[1].contents.val[2].root = Append(Cwd, <<"s">>)
    /\ sp[1].contents.val[1].size = 1 /\ sp[1].contents.val[2].size = 1
    /\ sp[1].size = 2


---------------------------------------------------------------------------
(* What a load that failed in exec leaves behind.                          *)

LoadFailures == {"IncompleteLoad", "IOFailure"}

\* The k-th invocation was a load whose exec returned one of the failures,
\* with its target path on the disk it left.
FailedLoad(k) ==
    /\ eff.runs[k].kind = "load" /\ eff.runs[k].op = "exec"
    /\ eff.runs[k].status \in LoadFailures
    /\ eff.runs[k].target.some
    /\ MetadataOk(eff.runs[k].fs, eff.runs[k].target.val)

\* An unload that returned success is among the invocations k+1 .. j.
UnloadedWithin(k, j) ==
    \E m \in (k + 1)..j :
        /\ m <= Len(eff.runs)
        /\ eff.runs[m].kind = "unload" /\ eff.runs[m].op = "exec"
        /\ eff.runs[m].status = "Ok"

\* A load that never held a target: its prep, if called, returned
\* AlreadyExists, and its exec, if called, panicked.
TurnedAway(kind, name, target, op, status, of) ==
    (kind = "load" /\ name = of.name) =>
        /\ target = None
        /\ op = "prep" => status = "AlreadyExists"
        /\ op = "exec" => status = "Panic"

AfterFailedLoad ==
    \A k \in 1..Len(eff.runs) :
        /\ (eff.runs[k].kind = "load" /\ eff.runs[k].op = "exec"
              /\ eff.runs[k].status = "IncompleteLoad") => FailedLoad(k)
        /\ FailedLoad(k) =>
              /\ \A j \in (k + 1)..Len(eff.runs) :
                    ~UnloadedWithin(k, j) =>
                        /\ MetadataOk(eff.runs[j].fs, eff.runs[k].target.val)
                        /\ TurnedAway(eff.runs[j].kind, eff.runs[j].name,
                                      eff.runs[j].target, eff.runs[j].op,
                                      eff.runs[j].status, eff.runs[k])
              /\ (~UnloadedWithin(k, Len(eff.runs))
                    /\ ~(sp[1].kind = "unload" /\ res[1].op = "exec")) =>
                        /\ MetadataOk(fs, eff.runs[k].target.val)
                        /\ TurnedAway(sp[1].kind, sp[1].name, sp[1].target,
                                      res[1].op, res[1].status, eff.runs[k])

\* C25: an exec of a load that returns IncompleteLoad or an I/O error
\* removes nothing: every entry that was on disk and every entry it made or
\* wrote is on disk after it, and the target path is there when anything
\* was made.  After IncompleteLoad the target path is always there.  From
\* then on, until an unload returns success, the target path stays and every
\* load of that realm name is turned away at prep with AlreadyExists.
C25_FailedLoadLeavesTarget ==
    [][/\ \A i \in Slots :
            (LoadStep(i) /\ res'[i].status \in LoadFailures) =>
                /\ DOMAIN fs \subseteq DOMAIN fs'
                /\ (res'[i].made \cup res'[i].wrote) \subseteq DOMAIN fs'
                /\ res'[i].made /= {} => MetadataOk(fs', sp[i].target.val)
        /\ AfterFailedLoad']_vars

\* A load ended in IncompleteLoad with its target on disk, and the load of
\* the same realm that follows was turned away at prep.
C25_Witness ==
    /\ Len(eff.runs) = 1 /\ FailedLoad(1)
    /\ eff.runs[1].status = "IncompleteLoad"
    /\ sp[1].kind = "load" /\ sp[1].name = eff.runs[1].name
    /\ res[1].op = "prep" /\ res[1].status = "AlreadyExists"
    /\ MetadataOk(fs, eff.runs[1].target.val)

\* A load failed with an I/O error after it made its target, an unload
\* returned success, and the prep of the load that follows passed.
C25_UnloadEndsIt ==
    /\ Len(eff.runs) = 2 /\ FailedLoad(1) /\ eff.runs[1].status = "IOFailure"
    /\ UnloadedWithin(1, 2)
    /\ sp[1].kind = "load" /\ res[1].op = "prep" /\ res[1].status = "Ok"


---------------------------------------------------------------------------
(* The content arguments a load accepts.                                   *)

\* Content arguments: the home path, the container's names, entries of the
\* project and of the home directory, and a name found nowhere.
TriedNames ==
    {<<"/", "h">>, DOT_BIFROST, CONTAINER, DOT_BIFORST, <<"p">>, <<"a">>,
     <<"d">>, <<"x">>}

\* The root of the container, home/.bifrost.
ContainerRoot == Join(Home, DOT_BIFROST)

\* The name is an entry of the current directory.
InCwd(name) ==
    /\ IsDir(fs, cfg.cwd)
    /\ \E k \in 1..Len(ReadDir(fs, Resolve(fs, cfg.cwd))) :
          ReadDir(fs, Resolve(fs, cfg.cwd))[k] = name

\* C26: a content argument that is the home path, or contains .bifrost or
\* container, is not loadable; any other is loadable exactly when the current
\* directory has an entry of that name; and no WorkingDir of a LoadSpace has
\* the container root, or a path inside it, as its root.
C26_ContainerNeverLoadable ==
    /\ \A name \in TriedNames :
          IF \/ PathNew(name) = cfg.home
             \/ Contains(name, DOT_BIFROST) \/ Contains(name, CONTAINER)
          THEN ~IsLoadable(fs, cfg, name)
          ELSE IsLoadable(fs, cfg, name) <=> InCwd(name)
    /\ \A i \in Slots :
          (sp[i].kind = "load" /\ sp[i].contents.some) =>
              \A k \in 1..Len(sp[i].contents.val) :
                  ~IsPrefix(ContainerRoot, sp[i].contents.val[k].root)

\* What is_loadable does: the home path, and a name that contains .biforst
\* or container, are refused; any other name, .bifrost among them, is
\* loadable exactly when the current directory has an entry of that name.
C26_AsCoded ==
    \A name \in TriedNames :
        IF \/ PathNew(name) = cfg.home
           \/ Contains(name, DOT_BIFORST) \/ Contains(name, CONTAINER)
        THEN ~IsLoadable(fs, cfg, name)
        ELSE IsLoadable(fs, cfg, name) <=> InCwd(name)

\* `bifrost load .bifrost` in the home directory: the container root is the
\* root of the WorkingDir, and exec has copied the container into the realm.
C26_ContainerRootLoaded ==
    /\ cfg.cwd = Home /\ IsLoadable(fs, cfg, DOT_BIFROST)
    /\ sp[1].kind = "load" /\ sp[1].contents.some
    /\ sp[1].contents.val[1].root = ContainerRoot
    /\ res[1].op = "exec" /\ res[1].made /= {}


---------------------------------------------------------------------------
(* A load root that the ignore list names.                                 *)

\* The filter prunes the root of the WorkingDir.
RootPruned(wd) == Ignorable(FileName(wd.root), wd.ignore_list)

\* C27: the first build leaves a WorkingDir whose root is pruned with no
\* directories, no files and size 0; and an exec with no write fault of a
\* LoadSpace whose WorkingDirs are all such returns Ok with 0 bytes, writes
\* no file, and leaves the target as an empty directory, the only entry it
\* can have created.
C27_PrunedRootLoadsNothing ==
    [][\A i \in Slots :
        /\ (sp[i].kind = "load" /\ sp[i].contents.some
              /\ Calls(sp[i], "build") = 0 /\ CallOf(i, "build")) =>
                \A k \in 1..Len(sp'[i].contents.val) :
                    RootPruned(sp'[i].contents.val[k]) =>
                        /\ sp'[i].contents.val[k].dirs = <<>>
                        /\ sp'[i].contents.val[k].files = <<>>
                        /\ sp'[i].contents.val[k].size = 0
        /\ (LoadStep(i) /\ Calls(sp[i], "build") = 1
              /\ sp[i].contents.val /= <<>>
              /\ (\A k \in 1..Len(sp[i].contents.val) :
                     RootPruned(sp[i].contents.val[k]))
              /\ res'[i].faults = 0) =>
                /\ res'[i].status = "Ok" /\ res'[i].bytes = Some(0)
                /\ res'[i].wrote = {}
                /\ IsDir(fs', sp[i].target.val)
                /\ Subtree(fs', Resolve(fs', sp[i].target.val))
                      = {Resolve(fs', sp[i].target.val)}
                /\ Touched \subseteq {Resolve(fs', sp[i].target.val)}]_vars

\* `bifrost load t` with t in the ignore list and a file t of one byte in
\* the current directory: prep, build and exec returned Ok, 0 bytes were
\* copied and the target was made.
C27_Witness ==
    /\ sp[1].kind = "load" /\ sp[1].hist = <<"prep", "build", "exec">>
    /\ Len(sp[1].contents.val) = 1
    /\ sp[1].contents.val[1].root = Append(Cwd, <<"t">>)
    /\ RootPruned(sp[1].contents.val[1])
    /\ IsFile(fs, Append(Cwd, <<"t">>)) /\ fs[Append(Cwd, <<"t">>)].size = 1
    /\ res[1].op = "exec" /\ res[1].status = "Ok" /\ res[1].bytes = Some(0)
    /\ res[1].made = {sp[1].target.val}
    /\ IsDir(fs, sp[1].target.val)


---------------------------------------------------------------------------
(* An exec on a space that holds no target.                                *)

\* C28: an exec of a space whose target is unset leaves the disk as it was
\* and writes, deletes, lists and spawns nothing: a load panics, an unload
\* ends the process with status 1, a show returns Ok with no text, and a run
\* returns an error.
C28_ExecWithoutTargetHasNoEffect ==
    [][\A i \in Slots :
        (CallOf(i, "exec") /\ ~sp[i].target.some) =>
            /\ fs' = fs /\ Effects(eff') = Effects(eff)
            /\ res'[i].op = "exec"
            /\ sp[i].kind = "load" =>
                  res'[i].status = "Panic" /\ sp'[i].status = "panicked"
            /\ sp[i].kind = "unload" =>
                  res'[i].status = "Exit" /\ sp'[i].status = "exited"
            /\ sp[i].kind = "show" =>
                  res'[i].status = "Ok" /\ res'[i].text = None
            /\ sp[i].kind = "run" => res'[i].status = "NoCommand"]_vars

\* The realm p is loaded and the manifest holds a command list, and a run
\* was executed with no prep: it returned the error and spawned nothing.
C28_Witness ==
    /\ sp[1].kind = "run" /\ Calls(sp[1], "prep") = 0
    /\ ~sp[1].target.some /\ sp[1].manifest_cmd.some
    /\ sp[1].name.some /\ IsDir(fs, CandidatePath(Home, sp[1].name))
    /\ res[1].op = "exec" /\ res[1].status = "NoCommand"
    /\ eff.spawned = {}

\* A show with no prep returned Ok with no text while its realm is on disk.
C28_ShowWithoutTarget ==
    /\ sp[1].kind = "show" /\ ~sp[1].target.some
    /\ sp[1].name.some /\ IsDir(fs, CandidatePath(Home, sp[1].name))
    /\ res[1].op = "exec" /\ res[1].status = "Ok" /\ res[1].text = None
    /\ eff.listed = {}

\* An unload with no prep ended the process while its realm is on disk.
C28_UnloadWithoutTarget ==
    /\ sp[1].kind = "unload" /\ ~sp[1].target.some
    /\ sp[1].name.some /\ IsDir(fs, CandidatePath(Home, sp[1].name))
    /\ res[1].op = "exec" /\ res[1].status = "Exit"
    /\ eff.deleted = {}

\* A load whose prep refused the name panicked in exec.
C28_LoadWithoutTarget ==
    /\ sp[1].kind = "load" /\ ~sp[1].target.some
    /\ sp[1].hist = <<"prep", "build", "exec">>
    /\ res[1].op = "exec" /\ res[1].status = "Panic"
    /\ eff.written = {}


---------------------------------------------------------------------------
(* An exec of a LoadSpace that was prepared and never built.               *)

\* No WorkingDir of the space has been walked.
Unwalked(s) ==
    \A k \in 1..Len(s.contents.val) :
        /\ s.contents.val[k].dirs = <<>>
        /\ s.contents.val[k].files = <<>>
        /\ s.contents.val[k].size = 0

\* C29: in a LoadSpace with a target and no build, every WorkingDir is
\* unwalked and size is 0, and an exec with no write fault returns Ok with 0
\* bytes: it writes no file and leaves the target as an empty directory,
\* the only entry it can have created.
C29_ExecWithoutBuild ==
    [][\A i \in Slots :
        (LoadStep(i) /\ Calls(sp[i], "build") = 0) =>
            /\ Unwalked(sp[i]) /\ sp[i].size = 0
            /\ res'[i].status /= "Panic"
            /\ res'[i].faults = 0 =>
                  /\ res'[i].status = "Ok" /\ res'[i].bytes = Some(0)
                  /\ res'[i].wrote = {}
                  /\ IsDir(fs', sp[i].target.val)
                  /\ Subtree(fs', Resolve(fs', sp[i].target.val))
                        = {Resolve(fs', sp[i].target.val)}
                  /\ Touched \subseteq {Resolve(fs', sp[i].target.val)}]_vars

\* `bifrost load t s` over two files of one byte each: prep and then exec,
\* with no build, returned Ok with 0 bytes and made the target.
C29_Witness ==
    /\ sp[1].kind = "load" /\ sp[1].hist = <<"prep", "exec">>
    /\ Len(sp[1].contents.val) = 2
    /\ \A k \in 1..2 : /\ IsFile(fs, sp[1].contents.val[k].root)
                       /\ fs[sp[1].contents.val[k].root].size = 1
                       /\ ~RootPruned(sp[1].contents.val[k])
    /\ res[1].op = "exec" /\ res[1].status = "Ok" /\ res[1].bytes = Some(0)
    /\ res[1].made = {sp[1].target.val} /\ res[1].wrote = {}
    /\ IsDir(fs, sp[1].target.val)


---------------------------------------------------------------------------
(* A prep that is called again.                                            *)

C30_RunOnce ==
    /\ sp[1].kind = "run" /\ sp[1].hist = <<"prep", "exec">>
    /\ res[1].op = "exec" /\ res[1].status = "Ok"
    /\ eff.spawned = {sp[1].name.val}

\* A show prepared twice with its realm on disk and then executed.
C30_ShowPrepAgain ==
    /\ sp[1].kind = "show" /\ sp[1].hist = <<"prep", "prep", "exec">>
    /\ res[1].op = "exec" /\ res[1].status = "Ok" /\ res[1].text /= None

=============================================================================
